---- MODULE Spec2Model ----
(***************************************************************************)
(* Verification model of the field kernel (src/field.js): the Marching     *)
(* Cubes mesher (Mesher.marchingCubes, Mesher._marchCube and the lookup    *)
(* tables), Field sampling and bounds, the primitive constructors, the     *)
(* combinators, transforms, modifiers and the bounded lattices.            *)
(*                                                                         *)
(* Numbers.  JavaScript numbers are modelled exactly on the inputs used:   *)
(*   - the mesher works on rationals [n, d] (d = 0 encodes NaN/Infinity);  *)
(*   - distance fields evaluate to numbers (coef*sqrt(rad) + add) / den,   *)
(*     compared exactly by squaring.                                       *)
(***************************************************************************)
EXTENDS Integers, Sequences, FiniteSets, TLC

VARIABLES
  \* ---- one Mesher.marchingCubes call ----
  pc,          \* position in the call: idle, sampling, triangulating, finalizing, done, thrown
  field,       \* the field argument
  options,     \* the options argument
  resolution,  \* const resolution
  maxMemoryMB, \* const maxMemoryMB
  bounds,      \* const bounds
  grid,        \* the Float32Array, <<>> before it is allocated
  sampledAt,   \* ghost: point handed to field._evaluate for each grid cell written
  sampleCount, \* let sampleCount
  cubeCount,   \* let cubeCount
  vertices,    \* const vertices (flattened)
  normals,     \* const normals (flattened)
  indices,     \* const indices
  progress,    \* ghost: the percents handed to onProgress, in order
  mesh,        \* the returned mesh, absent until the call returns
  maxResolution, \* the maximum resolution named in the thrown error, absent unless thrown
  \* ---- one Mesher._marchCube call on a free-standing cube ----
  cubeValues,  \* the eight corner samples
  cubeOut,     \* what the call appended, absent before it ran
  \* ---- a script building one Field and probing it ----
  solid,       \* the Field built so far, absent before the first constructor returns
  call,        \* the last constructor call: its name, its arguments, whether it threw
  opCount,     \* constructor calls made
  probe,       \* the sample(p) or _evaluate(p) made on solid since it was built, and its result
  \* ---- exports of the returned mesh ----
  stl,         \* the name given to Mesher.toSTL and the buffer it returned, absent before
  obj,         \* the name given to Mesher.toOBJ and the text it returned, absent before
  \* ---- a script applying operations to Field objects ----
  objects,     \* the Field objects created so far, in order of creation; an object's
               \* reference is its position
  applied,     \* the last operation: its name, the references given and returned, and
               \* the objects as they were before it
  \* ---- parameters, derived parameters and one parametric field ----
  params,        \* the Parameter objects by name
  cachedField,   \* let cachedField of the parametric field, absent while null
  needsRebuild,  \* let needsRebuild of the parametric field
  reading,       \* the last statement of the script and what it gave
  \* ---- free-standing calls ----
  blend,         \* the last Boolean._smoothMin / _smoothMax call and its result
  extrusion,     \* the last _evaluate on an extruded sketch and its result
  tree           \* one FeatureTree: its features, currentResult and the last call

mesherVars == <<pc, field, options, resolution, maxMemoryMB, bounds, grid, sampledAt,
                sampleCount, cubeCount, vertices, normals, indices, progress, mesh,
                maxResolution>>
cubeVars == <<cubeValues, cubeOut>>
fieldVars == <<solid, call, opCount, probe>>
exportVars == <<stl, obj>>
objectVars == <<objects, applied>>
paramVars == <<params, cachedField, needsRebuild, reading>>
lateVars == <<blend, extrusion, tree>>
vars == <<mesherVars, cubeVars, fieldVars, exportVars, objectVars, paramVars, lateVars>>

\* what a step of the marchingCubes call leaves alone
notMesherVars == <<cubeVars, fieldVars, exportVars, objectVars, paramVars, lateVars>>

\* ------------------------------------------------------------------------
\* Bounds of the model
\* ------------------------------------------------------------------------
MaxRes == 2

\* constructor calls in one script
MaxOps == 2

\* largest resolution whose progress reports are followed
MaxProgressRes == 32

\* ------------------------------------------------------------------------
\* Exact rationals (the mesher's numbers)
\* ------------------------------------------------------------------------
Abs(n) == IF n < 0 THEN -n ELSE n

Sign(n) == IF n < 0 THEN -1 ELSE IF n > 0 THEN 1 ELSE 0

RECURSIVE GCD(_, _)
GCD(a, b) == IF b = 0 THEN a ELSE GCD(b, a % b)

Rat(n, d) ==
  IF d = 0 THEN [n |-> Sign(n), d |-> 0]
  ELSE LET g == GCD(Abs(n), Abs(d))
           s == IF d < 0 THEN -1 ELSE 1
       IN [n |-> s * (n \div g), d |-> s * (d \div g)]

Int2Rat(k) == [n |-> k, d |-> 1]

NaN == [n |-> 0, d |-> 0]

IsNaN(r) == r.d = 0 /\ r.n = 0

IsFinite(r) == r.d # 0

RNeg(a) == [n |-> -a.n, d |-> a.d]

RAdd(a, b) ==
  IF IsFinite(a) /\ IsFinite(b) THEN Rat(a.n * b.d + b.n * a.d, a.d * b.d)
  ELSE IF IsNaN(a) \/ IsNaN(b) THEN NaN
  ELSE IF ~IsFinite(a) /\ ~IsFinite(b) THEN (IF a.n = b.n THEN a ELSE NaN)
  ELSE IF IsFinite(a) THEN b ELSE a

RSub(a, b) == RAdd(a, RNeg(b))

RMul(a, b) ==
  IF IsFinite(a) /\ IsFinite(b) THEN Rat(a.n * b.n, a.d * b.d)
  ELSE IF IsNaN(a) \/ IsNaN(b) \/ a.n = 0 \/ b.n = 0 THEN NaN
  ELSE [n |-> Sign(a.n) * Sign(b.n), d |-> 0]

RDiv(a, b) ==
  IF IsNaN(a) \/ IsNaN(b) THEN NaN
  ELSE IF ~IsFinite(b) THEN (IF IsFinite(a) THEN Int2Rat(0) ELSE NaN)
  ELSE IF ~IsFinite(a) THEN [n |-> a.n * (IF b.n < 0 THEN -1 ELSE 1), d |-> 0]
  ELSE IF b.n = 0 THEN Rat(Sign(a.n), 0)
  ELSE Rat(a.n * b.d, a.d * b.n)

RAbs(a) == [n |-> Abs(a.n), d |-> a.d]

\* a <= b, false when either is NaN
RLeq(a, b) ==
  IF IsNaN(a) \/ IsNaN(b) THEN FALSE
  ELSE IF ~IsFinite(a) THEN (a.n < 0 \/ (~IsFinite(b) /\ b.n > 0))
  ELSE IF ~IsFinite(b) THEN b.n > 0
  ELSE a.n * b.d <= b.n * a.d

RGt(a, b) == ~IsNaN(a) /\ ~IsNaN(b) /\ ~RLeq(a, b)

\* ------------------------------------------------------------------------
\* MarchingCubesTables
\* ------------------------------------------------------------------------
edgeTable ==
  <<
    0, 265, 515, 778, 1030, 1295, 1541, 1804,
    2060, 2309, 2575, 2822, 3082, 3331, 3593, 3840,
    400, 153, 915, 666, 1430, 1183, 1941, 1692,
    2460, 2197, 2975, 2710, 3482, 3219, 3993, 3728,
    560, 825, 51, 314, 1590, 1855, 1077, 1340,
    2620, 2869, 2111, 2358, 3642, 3891, 3129, 3376,
    928, 681, 419, 170, 1958, 1711, 1445, 1196,
    2988, 2725, 2479, 2214, 4010, 3747, 3497, 3232,
    1120, 1385, 1635, 1898, 102, 367, 613, 876,
    3180, 3429, 3695, 3942, 2154, 2403, 2665, 2912,
    1520, 1273, 2035, 1786, 502, 255, 1013, 764,
    3580, 3317, 4095, 3830, 2554, 2291, 3065, 2800,
    1616, 1881, 1107, 1370, 598, 863, 85, 348,
    3676, 3925, 3167, 3414, 2650, 2899, 2137, 2384,
    1984, 1737, 1475, 1226, 966, 719, 453, 204,
    4044, 3781, 3535, 3270, 3018, 2755, 2505, 2240,
    2240, 2505, 2755, 3018, 3270, 3535, 3781, 4044,
    204, 453, 719, 966, 1226, 1475, 1737, 1984,
    2384, 2137, 2899, 2650, 3414, 3167, 3925, 3676,
    348, 85, 863, 598, 1370, 1107, 1881, 1616,
    2800, 3065, 2291, 2554, 3830, 4095, 3317, 3580,
    764, 1013, 255, 502, 1786, 2035, 1273, 1520,
    2912, 2665, 2403, 2154, 3942, 3695, 3429, 3180,
    876, 613, 367, 102, 1898, 1635, 1385, 1120,
    3232, 3497, 3747, 4010, 2214, 2479, 2725, 2988,
    1196, 1445, 1711, 1958, 170, 419, 681, 928,
    3376, 3129, 3891, 3642, 2358, 2111, 2869, 2620,
    1340, 1077, 1855, 1590, 314, 51, 825, 560,
    3728, 3993, 3219, 3482, 2710, 2975, 2197, 2460,
    1692, 1941, 1183, 1430, 666, 915, 153, 400,
    3840, 3593, 3331, 3082, 2822, 2575, 2309, 2060,
    1804, 1541, 1295, 1030, 778, 515, 265, 0
  >>

triTable ==
  <<
    <<>>,
    <<0, 8, 3>>,
    <<0, 1, 9>>,
    <<1, 8, 3, 9, 8, 1>>,
    <<1, 2, 10>>,
    <<0, 8, 3, 1, 2, 10>>,
    <<9, 2, 10, 0, 2, 9>>,
    <<2, 8, 3, 2, 10, 8, 10, 9, 8>>,
    <<3, 11, 2>>,
    <<0, 11, 2, 8, 11, 0>>,
    <<1, 9, 0, 2, 3, 11>>,
    <<1, 11, 2, 1, 9, 11, 9, 8, 11>>,
    <<3, 10, 1, 11, 10, 3>>,
    <<0, 10, 1, 0, 8, 10, 8, 11, 10>>,
    <<3, 9, 0, 3, 11, 9, 11, 10, 9>>,
    <<9, 8, 10, 10, 8, 11>>,
    <<4, 7, 8>>,
    <<4, 3, 0, 7, 3, 4>>,
    <<0, 1, 9, 8, 4, 7>>,
    <<4, 1, 9, 4, 7, 1, 7, 3, 1>>,
    <<1, 2, 10, 8, 4, 7>>,
    <<3, 4, 7, 3, 0, 4, 1, 2, 10>>,
    <<9, 2, 10, 9, 0, 2, 8, 4, 7>>,
    <<2, 10, 9, 2, 9, 7, 2, 7, 3, 7, 9, 4>>,
    <<8, 4, 7, 3, 11, 2>>,
    <<11, 4, 7, 11, 2, 4, 2, 0, 4>>,
    <<9, 0, 1, 8, 4, 7, 2, 3, 11>>,
    <<4, 7, 11, 9, 4, 11, 9, 11, 2, 9, 2, 1>>,
    <<3, 10, 1, 3, 11, 10, 7, 8, 4>>,
    <<1, 11, 10, 1, 4, 11, 1, 0, 4, 7, 11, 4>>,
    <<4, 7, 8, 9, 0, 11, 9, 11, 10, 11, 0, 3>>,
    <<4, 7, 11, 4, 11, 9, 9, 11, 10>>,
    <<9, 5, 4>>,
    <<9, 5, 4, 0, 8, 3>>,
    <<0, 5, 4, 1, 5, 0>>,
    <<8, 5, 4, 8, 3, 5, 3, 1, 5>>,
    <<1, 2, 10, 9, 5, 4>>,
    <<3, 0, 8, 1, 2, 10, 4, 9, 5>>,
    <<5, 2, 10, 5, 4, 2, 4, 0, 2>>,
    <<2, 10, 5, 3, 2, 5, 3, 5, 4, 3, 4, 8>>,
    <<9, 5, 4, 2, 3, 11>>,
    <<0, 11, 2, 0, 8, 11, 4, 9, 5>>,
    <<0, 5, 4, 0, 1, 5, 2, 3, 11>>,
    <<2, 1, 5, 2, 5, 8, 2, 8, 11, 4, 8, 5>>,
    <<10, 3, 11, 10, 1, 3, 9, 5, 4>>,
    <<4, 9, 5, 0, 8, 1, 8, 10, 1, 8, 11, 10>>,
    <<5, 4, 0, 5, 0, 11, 5, 11, 10, 11, 0, 3>>,
    <<5, 4, 8, 5, 8, 10, 10, 8, 11>>,
    <<9, 7, 8, 5, 7, 9>>,
    <<9, 3, 0, 9, 5, 3, 5, 7, 3>>,
    <<0, 7, 8, 0, 1, 7, 1, 5, 7>>,
    <<1, 5, 3, 3, 5, 7>>,
    <<9, 7, 8, 9, 5, 7, 10, 1, 2>>,
    <<10, 1, 2, 9, 5, 0, 5, 3, 0, 5, 7, 3>>,
    <<8, 0, 2, 8, 2, 5, 8, 5, 7, 10, 5, 2>>,
    <<2, 10, 5, 2, 5, 3, 3, 5, 7>>,
    <<7, 9, 5, 7, 8, 9, 3, 11, 2>>,
    <<9, 5, 7, 9, 7, 2, 9, 2, 0, 2, 7, 11>>,
    <<2, 3, 11, 0, 1, 8, 1, 7, 8, 1, 5, 7>>,
    <<11, 2, 1, 11, 1, 7, 7, 1, 5>>,
    <<9, 5, 8, 8, 5, 7, 10, 1, 3, 10, 3, 11>>,
    <<5, 7, 0, 5, 0, 9, 7, 11, 0, 1, 0, 10, 11, 10, 0>>,
    <<11, 10, 0, 11, 0, 3, 10, 5, 0, 8, 0, 7, 5, 7, 0>>,
    <<11, 10, 5, 7, 11, 5>>,
    <<10, 6, 5>>,
    <<0, 8, 3, 5, 10, 6>>,
    <<9, 0, 1, 5, 10, 6>>,
    <<1, 8, 3, 1, 9, 8, 5, 10, 6>>,
    <<1, 6, 5, 2, 6, 1>>,
    <<1, 6, 5, 1, 2, 6, 3, 0, 8>>,
    <<9, 6, 5, 9, 0, 6, 0, 2, 6>>,
    <<5, 9, 8, 5, 8, 2, 5, 2, 6, 3, 2, 8>>,
    <<2, 3, 11, 10, 6, 5>>,
    <<11, 0, 8, 11, 2, 0, 10, 6, 5>>,
    <<0, 1, 9, 2, 3, 11, 5, 10, 6>>,
    <<5, 10, 6, 1, 9, 2, 9, 11, 2, 9, 8, 11>>,
    <<6, 3, 11, 6, 5, 3, 5, 1, 3>>,
    <<0, 8, 11, 0, 11, 5, 0, 5, 1, 5, 11, 6>>,
    <<3, 11, 6, 0, 3, 6, 0, 6, 5, 0, 5, 9>>,
    <<6, 5, 9, 6, 9, 11, 11, 9, 8>>,
    <<5, 10, 6, 4, 7, 8>>,
    <<4, 3, 0, 4, 7, 3, 6, 5, 10>>,
    <<1, 9, 0, 5, 10, 6, 8, 4, 7>>,
    <<10, 6, 5, 1, 9, 7, 1, 7, 3, 7, 9, 4>>,
    <<6, 1, 2, 6, 5, 1, 4, 7, 8>>,
    <<1, 2, 5, 5, 2, 6, 3, 0, 4, 3, 4, 7>>,
    <<8, 4, 7, 9, 0, 5, 0, 6, 5, 0, 2, 6>>,
    <<7, 3, 9, 7, 9, 4, 3, 2, 9, 5, 9, 6, 2, 6, 9>>,
    <<3, 11, 2, 7, 8, 4, 10, 6, 5>>,
    <<5, 10, 6, 4, 7, 2, 4, 2, 0, 2, 7, 11>>,
    <<0, 1, 9, 4, 7, 8, 2, 3, 11, 5, 10, 6>>,
    <<9, 2, 1, 9, 11, 2, 9, 4, 11, 7, 11, 4, 5, 10, 6>>,
    <<8, 4, 7, 3, 11, 5, 3, 5, 1, 5, 11, 6>>,
    <<5, 1, 11, 5, 11, 6, 1, 0, 11, 7, 11, 4, 0, 4, 11>>,
    <<0, 5, 9, 0, 6, 5, 0, 3, 6, 11, 6, 3, 8, 4, 7>>,
    <<6, 5, 9, 6, 9, 11, 4, 7, 9, 7, 11, 9>>,
    <<10, 4, 9, 6, 4, 10>>,
    <<4, 10, 6, 4, 9, 10, 0, 8, 3>>,
    <<10, 0, 1, 10, 6, 0, 6, 4, 0>>,
    <<8, 3, 1, 8, 1, 6, 8, 6, 4, 6, 1, 10>>,
    <<1, 4, 9, 1, 2, 4, 2, 6, 4>>,
    <<3, 0, 8, 1, 2, 9, 2, 4, 9, 2, 6, 4>>,
    <<0, 2, 4, 4, 2, 6>>,
    <<8, 3, 2, 8, 2, 4, 4, 2, 6>>,
    <<10, 4, 9, 10, 6, 4, 11, 2, 3>>,
    <<0, 8, 2, 2, 8, 11, 4, 9, 10, 4, 10, 6>>,
    <<3, 11, 2, 0, 1, 6, 0, 6, 4, 6, 1, 10>>,
    <<6, 4, 1, 6, 1, 10, 4, 8, 1, 2, 1, 11, 8, 11, 1>>,
    <<9, 6, 4, 9, 3, 6, 9, 1, 3, 11, 6, 3>>,
    <<8, 11, 1, 8, 1, 0, 11, 6, 1, 9, 1, 4, 6, 4, 1>>,
    <<3, 11, 6, 3, 6, 0, 0, 6, 4>>,
    <<6, 4, 8, 11, 6, 8>>,
    <<7, 10, 6, 7, 8, 10, 8, 9, 10>>,
    <<0, 7, 3, 0, 10, 7, 0, 9, 10, 6, 7, 10>>,
    <<10, 6, 7, 1, 10, 7, 1, 7, 8, 1, 8, 0>>,
    <<10, 6, 7, 10, 7, 1, 1, 7, 3>>,
    <<1, 2, 6, 1, 6, 8, 1, 8, 9, 8, 6, 7>>,
    <<2, 6, 9, 2, 9, 1, 6, 7, 9, 0, 9, 3, 7, 3, 9>>,
    <<7, 8, 0, 7, 0, 6, 6, 0, 2>>,
    <<7, 3, 2, 6, 7, 2>>,
    <<2, 3, 11, 10, 6, 8, 10, 8, 9, 8, 6, 7>>,
    <<2, 0, 7, 2, 7, 11, 0, 9, 7, 6, 7, 10, 9, 10, 7>>,
    <<1, 8, 0, 1, 7, 8, 1, 10, 7, 6, 7, 10, 2, 3, 11>>,
    <<11, 2, 1, 11, 1, 7, 10, 6, 1, 6, 7, 1>>,
    <<8, 9, 6, 8, 6, 7, 9, 1, 6, 11, 6, 3, 1, 3, 6>>,
    <<0, 9, 1, 11, 6, 7>>,
    <<7, 8, 0, 7, 0, 6, 3, 11, 0, 11, 6, 0>>,
    <<7, 11, 6>>,
    <<7, 6, 11>>,
    <<3, 0, 8, 11, 7, 6>>,
    <<0, 1, 9, 11, 7, 6>>,
    <<8, 1, 9, 8, 3, 1, 11, 7, 6>>,
    <<10, 1, 2, 6, 11, 7>>,
    <<1, 2, 10, 3, 0, 8, 6, 11, 7>>,
    <<2, 9, 0, 2, 10, 9, 6, 11, 7>>,
    <<6, 11, 7, 2, 10, 3, 10, 8, 3, 10, 9, 8>>,
    <<7, 2, 3, 6, 2, 7>>,
    <<7, 0, 8, 7, 6, 0, 6, 2, 0>>,
    <<2, 7, 6, 2, 3, 7, 0, 1, 9>>,
    <<1, 6, 2, 1, 8, 6, 1, 9, 8, 8, 7, 6>>,
    <<10, 7, 6, 10, 1, 7, 1, 3, 7>>,
    <<10, 7, 6, 1, 7, 10, 1, 8, 7, 1, 0, 8>>,
    <<0, 3, 7, 0, 7, 10, 0, 10, 9, 6, 10, 7>>,
    <<7, 6, 10, 7, 10, 8, 8, 10, 9>>,
    <<6, 8, 4, 11, 8, 6>>,
    <<3, 6, 11, 3, 0, 6, 0, 4, 6>>,
    <<8, 6, 11, 8, 4, 6, 9, 0, 1>>,
    <<9, 4, 6, 9, 6, 3, 9, 3, 1, 11, 3, 6>>,
    <<6, 8, 4, 6, 11, 8, 2, 10, 1>>,
    <<1, 2, 10, 3, 0, 11, 0, 6, 11, 0, 4, 6>>,
    <<4, 11, 8, 4, 6, 11, 0, 2, 9, 2, 10, 9>>,
    <<10, 9, 3, 10, 3, 2, 9, 4, 3, 11, 3, 6, 4, 6, 3>>,
    <<8, 2, 3, 8, 4, 2, 4, 6, 2>>,
    <<0, 4, 2, 4, 6, 2>>,
    <<1, 9, 0, 2, 3, 4, 2, 4, 6, 4, 3, 8>>,
    <<1, 9, 4, 1, 4, 2, 2, 4, 6>>,
    <<8, 1, 3, 8, 6, 1, 8, 4, 6, 6, 10, 1>>,
    <<10, 1, 0, 10, 0, 6, 6, 0, 4>>,
    <<4, 6, 3, 4, 3, 8, 6, 10, 3, 0, 3, 9, 10, 9, 3>>,
    <<10, 9, 4, 6, 10, 4>>,
    <<4, 9, 5, 7, 6, 11>>,
    <<0, 8, 3, 4, 9, 5, 11, 7, 6>>,
    <<5, 0, 1, 5, 4, 0, 7, 6, 11>>,
    <<11, 7, 6, 8, 3, 4, 3, 5, 4, 3, 1, 5>>,
    <<9, 5, 4, 10, 1, 2, 7, 6, 11>>,
    <<6, 11, 7, 1, 2, 10, 0, 8, 3, 4, 9, 5>>,
    <<7, 6, 11, 5, 4, 10, 4, 2, 10, 4, 0, 2>>,
    <<3, 4, 8, 3, 5, 4, 3, 2, 5, 10, 5, 2, 11, 7, 6>>,
    <<7, 2, 3, 7, 6, 2, 5, 4, 9>>,
    <<9, 5, 4, 0, 8, 6, 0, 6, 2, 6, 8, 7>>,
    <<3, 6, 2, 3, 7, 6, 1, 5, 0, 5, 4, 0>>,
    <<6, 2, 8, 6, 8, 7, 2, 1, 8, 4, 8, 5, 1, 5, 8>>,
    <<9, 5, 4, 10, 1, 6, 1, 7, 6, 1, 3, 7>>,
    <<1, 6, 10, 1, 7, 6, 1, 0, 7, 8, 7, 0, 9, 5, 4>>,
    <<4, 0, 10, 4, 10, 5, 0, 3, 10, 6, 10, 7, 3, 7, 10>>,
    <<7, 6, 10, 7, 10, 8, 5, 4, 10, 4, 8, 10>>,
    <<6, 9, 5, 6, 11, 9, 11, 8, 9>>,
    <<3, 6, 11, 0, 6, 3, 0, 5, 6, 0, 9, 5>>,
    <<0, 11, 8, 0, 5, 11, 0, 1, 5, 5, 6, 11>>,
    <<6, 11, 3, 6, 3, 5, 5, 3, 1>>,
    <<1, 2, 10, 9, 5, 11, 9, 11, 8, 11, 5, 6>>,
    <<0, 11, 3, 0, 6, 11, 0, 9, 6, 5, 6, 9, 1, 2, 10>>,
    <<11, 8, 5, 11, 5, 6, 8, 0, 5, 10, 5, 2, 0, 2, 5>>,
    <<6, 11, 3, 6, 3, 5, 2, 10, 3, 10, 5, 3>>,
    <<5, 8, 9, 5, 2, 8, 5, 6, 2, 3, 8, 2>>,
    <<9, 5, 6, 9, 6, 0, 0, 6, 2>>,
    <<1, 5, 8, 1, 8, 0, 5, 6, 8, 3, 8, 2, 6, 2, 8>>,
    <<1, 5, 6, 2, 1, 6>>,
    <<1, 3, 6, 1, 6, 10, 3, 8, 6, 5, 6, 9, 8, 9, 6>>,
    <<10, 1, 0, 10, 0, 6, 9, 5, 0, 5, 6, 0>>,
    <<0, 3, 8, 5, 6, 10>>,
    <<10, 5, 6>>,
    <<11, 5, 10, 7, 5, 11>>,
    <<11, 5, 10, 11, 7, 5, 8, 3, 0>>,
    <<5, 11, 7, 5, 10, 11, 1, 9, 0>>,
    <<10, 7, 5, 10, 11, 7, 9, 8, 1, 8, 3, 1>>,
    <<11, 1, 2, 11, 7, 1, 7, 5, 1>>,
    <<0, 8, 3, 1, 2, 7, 1, 7, 5, 7, 2, 11>>,
    <<9, 7, 5, 9, 2, 7, 9, 0, 2, 2, 11, 7>>,
    <<7, 5, 2, 7, 2, 11, 5, 9, 2, 3, 2, 8, 9, 8, 2>>,
    <<2, 5, 10, 2, 3, 5, 3, 7, 5>>,
    <<8, 2, 0, 8, 5, 2, 8, 7, 5, 10, 2, 5>>,
    <<9, 0, 1, 5, 10, 3, 5, 3, 7, 3, 10, 2>>,
    <<9, 8, 2, 9, 2, 1, 8, 7, 2, 10, 2, 5, 7, 5, 2>>,
    <<1, 3, 5, 3, 7, 5>>,
    <<0, 8, 7, 0, 7, 1, 1, 7, 5>>,
    <<9, 0, 3, 9, 3, 5, 5, 3, 7>>,
    <<9, 8, 7, 5, 9, 7>>,
    <<5, 8, 4, 5, 10, 8, 10, 11, 8>>,
    <<5, 0, 4, 5, 11, 0, 5, 10, 11, 11, 3, 0>>,
    <<0, 1, 9, 8, 4, 10, 8, 10, 11, 10, 4, 5>>,
    <<10, 11, 4, 10, 4, 5, 11, 3, 4, 9, 4, 1, 3, 1, 4>>,
    <<2, 5, 1, 2, 8, 5, 2, 11, 8, 4, 5, 8>>,
    <<0, 4, 11, 0, 11, 3, 4, 5, 11, 2, 11, 1, 5, 1, 11>>,
    <<0, 2, 5, 0, 5, 9, 2, 11, 5, 4, 5, 8, 11, 8, 5>>,
    <<9, 4, 5, 2, 11, 3>>,
    <<2, 5, 10, 3, 5, 2, 3, 4, 5, 3, 8, 4>>,
    <<5, 10, 2, 5, 2, 4, 4, 2, 0>>,
    <<3, 10, 2, 3, 5, 10, 3, 8, 5, 4, 5, 8, 0, 1, 9>>,
    <<5, 10, 2, 5, 2, 4, 1, 9, 2, 9, 4, 2>>,
    <<8, 4, 5, 8, 5, 3, 3, 5, 1>>,
    <<0, 4, 5, 1, 0, 5>>,
    <<8, 4, 5, 8, 5, 3, 9, 0, 5, 0, 3, 5>>,
    <<9, 4, 5>>,
    <<4, 11, 7, 4, 9, 11, 9, 10, 11>>,
    <<0, 8, 3, 4, 9, 7, 9, 11, 7, 9, 10, 11>>,
    <<1, 10, 11, 1, 11, 4, 1, 4, 0, 7, 4, 11>>,
    <<3, 1, 4, 3, 4, 8, 1, 10, 4, 7, 4, 11, 10, 11, 4>>,
    <<4, 11, 7, 9, 11, 4, 9, 2, 11, 9, 1, 2>>,
    <<9, 7, 4, 9, 11, 7, 9, 1, 11, 2, 11, 1, 0, 8, 3>>,
    <<11, 7, 4, 11, 4, 2, 2, 4, 0>>,
    <<11, 7, 4, 11, 4, 2, 8, 3, 4, 3, 2, 4>>,
    <<2, 9, 10, 2, 7, 9, 2, 3, 7, 7, 4, 9>>,
    <<9, 10, 7, 9, 7, 4, 10, 2, 7, 8, 7, 0, 2, 0, 7>>,
    <<3, 7, 10, 3, 10, 2, 7, 4, 10, 1, 10, 0, 4, 0, 10>>,
    <<1, 10, 2, 8, 7, 4>>,
    <<4, 9, 1, 4, 1, 7, 7, 1, 3>>,
    <<4, 9, 1, 4, 1, 7, 0, 8, 1, 8, 7, 1>>,
    <<4, 0, 3, 7, 4, 3>>,
    <<4, 8, 7>>,
    <<9, 10, 8, 10, 11, 8>>,
    <<3, 0, 9, 3, 9, 11, 11, 9, 10>>,
    <<0, 1, 10, 0, 10, 8, 8, 10, 11>>,
    <<3, 1, 10, 11, 3, 10>>,
    <<1, 2, 11, 1, 11, 9, 9, 11, 8>>,
    <<3, 0, 9, 3, 9, 11, 1, 2, 9, 2, 11, 9>>,
    <<0, 2, 11, 8, 0, 11>>,
    <<3, 2, 11>>,
    <<2, 3, 8, 2, 8, 10, 10, 8, 9>>,
    <<9, 10, 2, 0, 9, 2>>,
    <<2, 3, 8, 2, 8, 10, 0, 1, 8, 1, 10, 8>>,
    <<1, 10, 2>>,
    <<1, 3, 8, 9, 1, 8>>,
    <<0, 9, 1>>,
    <<0, 3, 8>>,
    <<>>
  >>

\* ------------------------------------------------------------------------
\* Vec3 / Bounds on rationals
\* ------------------------------------------------------------------------
RVec(x, y, z) == [x |-> Int2Rat(x), y |-> Int2Rat(y), z |-> Int2Rat(z)]

RBox(lo, hi) == [min |-> RVec(lo, lo, lo), max |-> RVec(hi, hi, hi)]

\* ------------------------------------------------------------------------
\* Field as the mesher sees it: Primitives.implicit(fn, bounds)
\* ------------------------------------------------------------------------
\* An absent value (undefined / null) is <<>>, a present one <<v>>.
Absent == <<>>

Some(v) == <<v>>

IsAbsent(o) == Len(o) = 0

\* The user functions handed to Primitives.implicit: integer polynomials, so that
\* every grid sample is an integer, which a Float32Array cell stores exactly.
ImplicitFn(fn, x, y, z) ==
  LET three == Int2Rat(3)
      dx == RSub(x, three)
      dy == RSub(y, three)
      dz == RSub(z, three)
  IN CASE fn = "sphere" ->
            RSub(RAdd(RAdd(RMul(dx, dx), RMul(dy, dy)), RMul(dz, dz)), Int2Rat(9))
       [] fn = "plane" -> RSub(RAdd(RAdd(x, y), z), Int2Rat(4))
       [] fn = "saddle" -> RSub(RMul(dx, dy), dz)
       [] fn = "zero" -> Int2Rat(0)

Implicit(fn, b) == [type |-> "implicit", fn |-> fn, _bounds |-> b]

Evaluate(f, p) == ImplicitFn(f.fn, p.x, p.y, p.z)

DefaultBounds == [min |-> RVec(-1000, -1000, -1000), max |-> RVec(1000, 1000, 1000)]

FieldBounds(f) == IF IsAbsent(f._bounds) THEN DefaultBounds ELSE f._bounds[1]

\* Field._gradient: the unit central-difference gradient at p.  Its components are
\* kept symbolic (axis and point of evaluation).
Gradient(f, p) ==
  [x |-> [grad |-> "x", at |-> p],
   y |-> [grad |-> "y", at |-> p],
   z |-> [grad |-> "z", at |-> p]]

\* ------------------------------------------------------------------------
\* Mesher._marchCube
\* ------------------------------------------------------------------------
\* Mutant: the corner layout of the published tables (y and z exchanged).
cornerOffsetsBourke ==
  << <<0, 0, 0>>, <<1, 0, 0>>, <<1, 1, 0>>, <<0, 1, 0>>,
     <<0, 0, 1>>, <<1, 0, 1>>, <<1, 1, 1>>, <<0, 1, 1>> >>

cornerOffsets ==
  << <<0, 0, 0>>, <<1, 0, 0>>, <<1, 0, 1>>, <<0, 0, 1>>,
     <<0, 1, 0>>, <<1, 1, 0>>, <<1, 1, 1>>, <<0, 1, 1>> >>

edgeConnections ==
  << <<0, 1>>, <<1, 2>>, <<2, 3>>, <<3, 0>>,
     <<4, 5>>, <<5, 6>>, <<6, 7>>, <<7, 4>>,
     <<0, 4>>, <<1, 5>>, <<2, 6>>, <<3, 7>> >>

\* (flags & (1 << i)) !== 0
Bit(flags, i) == (flags \div (2 ^ i)) % 2

RECURSIVE CubeIndexFrom(_, _)
CubeIndexFrom(values, i) ==
  IF i = 8 THEN 0
  ELSE (IF RLeq(values[i], Int2Rat(0)) THEN 2 ^ i ELSE 0) + CubeIndexFrom(values, i + 1)

\* Mutant: a corner counts only when its sample is below zero.
CubeIndexOfNegative(values) ==
  LET b(i) == IF values[i].n < 0 /\ values[i].d > 0 THEN 2 ^ i ELSE 0
  IN b(0) + b(1) + b(2) + b(3) + b(4) + b(5) + b(6) + b(7)

CubeIndex(values) == CubeIndexFrom(values, 0)

\* t = |val1| / (|val1| + |val2|)
InterpT(val1, val2) == RDiv(RAbs(val1), RAdd(RAbs(val1), RAbs(val2)))

EdgePoint(values, pos, step, i) ==
  LET edge == edgeConnections[i + 1]
      v1 == edge[1]
      v2 == edge[2]
      t == InterpT(values[v1], values[v2])
      p1 == cornerOffsets[v1 + 1]
      p2 == cornerOffsets[v2 + 1]
      Along(a, b, base, st) ==
        RAdd(base, RMul(RAdd(Int2Rat(a), RMul(t, Int2Rat(b - a))), st))
  IN [x |-> Along(p1[1], p2[1], pos.x, step.x),
      y |-> Along(p1[2], p2[2], pos.y, step.y),
      z |-> Along(p1[3], p2[3], pos.z, step.z)]

\* Mutant: the intersection is computed on all twelve edges, flagged or not.
EdgePointsAllEdges(values, pos, step, edgeFlags) ==
  [i \in 0..11 |-> Some(EdgePoint(values, pos, step, i))]

\* edgePoints: an entry only for the edges flagged in edgeFlags
EdgePoints(values, pos, step, edgeFlags) ==
  [i \in 0..11 |->
     IF Bit(edgeFlags, i) = 0 THEN Absent ELSE Some(EdgePoint(values, pos, step, i))]

\* Mutant: the base index counts floats, not vertices.
BaseIndexOfFloats(verts) == Len(verts)

\* const baseIndex = vertices.length / 3 (the length is a multiple of 9)
BaseIndex(verts) == Len(verts) \div 3

\* The loop over triTable[cubeIndex], three entries at a time (i is 1-based here).
RECURSIVE EmitTriangles(_, _, _, _, _)
EmitTriangles(triangles, i, edgePoints, out, f) ==
  IF i > Len(triangles) THEN out
  ELSE LET p0 == edgePoints[triangles[i]]
           p1 == edgePoints[triangles[i + 1]]
           p2 == edgePoints[triangles[i + 2]]
       IN IF IsAbsent(p0) \/ IsAbsent(p1) \/ IsAbsent(p2)
          THEN EmitTriangles(triangles, i + 3, edgePoints, out, f)
          ELSE LET baseIndex == BaseIndex(out.vertices)
                   a == p0[1]
                   b == p1[1]
                   c == p2[1]
                   n0 == Gradient(f, a)
                   n1 == Gradient(f, b)
                   n2 == Gradient(f, c)
               IN EmitTriangles(triangles, i + 3, edgePoints,
                    [vertices |-> out.vertices \o <<a.x, a.y, a.z, b.x, b.y, b.z, c.x, c.y, c.z>>,
                     normals |-> out.normals
                                   \o <<n0.x, n0.y, n0.z, n1.x, n1.y, n1.z, n2.x, n2.y, n2.z>>,
                     indices |-> out.indices \o <<baseIndex, baseIndex + 1, baseIndex + 2>>],
                    f)

MarchCube(values, pos, step, verts, norms, inds, f) ==
  LET cubeIndex == CubeIndex(values)
      out == [vertices |-> verts, normals |-> norms, indices |-> inds]
  IN IF cubeIndex = 0 \/ cubeIndex = 255 THEN out
     ELSE LET edgeFlags == edgeTable[cubeIndex + 1]
          IN IF edgeFlags = 0 THEN out
             ELSE EmitTriangles(triTable[cubeIndex + 1], 1,
                                EdgePoints(values, pos, step, edgeFlags), out, f)

\* ------------------------------------------------------------------------
\* Mesher.marchingCubes, one step per loop iteration
\* ------------------------------------------------------------------------
DefaultResolution == 32

DefaultMaxMemoryMB == 512

SampleProgressEvery == 10000

CubeProgressEvery == 1000

\* options.x || dflt for a numeric option: absent and 0 both give the default
OrDefault(opt, dflt) == IF IsAbsent(opt) \/ opt[1] = Int2Rat(0) THEN dflt ELSE opt[1]

\* Mutant: the estimate counts the cubes, not the (resolution + 1)^3 samples.
EstimatedMemoryOfCubes(res) == Rat((res ^ 3) * 4, 1024 * 1024)

\* Math.pow(resolution + 1, 3) * 4 / (1024 * 1024)
EstimatedMemory(res) == Rat(((res + 1) ^ 3) * 4, 1024 * 1024)

\* Mutant: the layer index added to the row index without its stride.
GetIndexWithoutLayerStride(i, j, k) == i + (resolution + 1) * (j + k)

\* const getIndex = (i, j, k) => i + (resolution + 1) * (j + (resolution + 1) * k)
GetIndex(i, j, k) == i + (resolution + 1) * (j + (resolution + 1) * k)

Step ==
  [x |-> RDiv(RSub(bounds.max.x, bounds.min.x), Int2Rat(resolution)),
   y |-> RDiv(RSub(bounds.max.y, bounds.min.y), Int2Rat(resolution)),
   z |-> RDiv(RSub(bounds.max.z, bounds.min.z), Int2Rat(resolution))]

\* min + (i, j, k) * step
GridPoint(i, j, k) ==
  [x |-> RAdd(bounds.min.x, RMul(Int2Rat(i), Step.x)),
   y |-> RAdd(bounds.min.y, RMul(Int2Rat(j), Step.y)),
   z |-> RAdd(bounds.min.z, RMul(Int2Rat(k), Step.z))]

\* const bounds = field.bounds(): options.bounds is not read
CallBounds(f, opts) == FieldBounds(f)

NoField == Implicit("zero", Absent)

NoOptions == [resolution |-> Absent, bounds |-> Absent, maxMemoryMB |-> Absent]

MesherIdle ==
  /\ pc = "idle"
  /\ field = NoField
  /\ options = NoOptions
  /\ resolution = 0
  /\ maxMemoryMB = Int2Rat(0)
  /\ bounds = DefaultBounds
  /\ grid = <<>>
  /\ sampledAt = <<>>
  /\ sampleCount = 0
  /\ cubeCount = 0
  /\ vertices = <<>>
  /\ normals = <<>>
  /\ indices = <<>>
  /\ progress = <<>>
  /\ mesh = Absent
  /\ maxResolution = Absent

\* the largest c in 0..1024 with c^3 <= x, for a rational x >= 0
FloorCubeRoot(x) ==
  CHOOSE c \in 0..1024 : c * c * c * x.d <= x.n /\ x.n < (c + 1) * (c + 1) * (c + 1) * x.d

\* Math.floor(Math.pow(x, 1/3)).  The exponent is the double nearest to one
\* third, which lies below it, so the power lies below the cube root: for a cube
\* x = c^3 with c >= 4 the nearest double to the power is below c and the floor is
\* c - 1 (Math.pow(64, 1/3) = 3.9999999999999996); for 1, 8 and 27 the power
\* rounds to 1, 2 and 3, and off the cubes the floor is that of the cube root.
FloorPowOneThird(x) ==
  LET c == FloorCubeRoot(x)
  IN IF c >= 4 /\ c * c * c * x.d = x.n THEN c - 1 ELSE c

\* maxResolution = Math.floor(Math.pow(maxMemoryMB * 1024 * 1024 / 4, 1/3)) - 1
MaxResolution(budgetMB) ==
  FloorPowOneThird(RDiv(RMul(budgetMB, Int2Rat(1024 * 1024)), Int2Rat(4))) - 1

\* Mutant: the sampling phase reported on a span of 40 percent.
SamplePercentOfForty(count, total) ==
  RAdd(Int2Rat(10), RMul(Rat(count, total), Int2Rat(40)))

\* percent = 10 + (sampleCount / totalSamples) * 30
SamplePercent(count, total) ==
  RAdd(Int2Rat(10), RMul(Rat(count, total), Int2Rat(30)))

\* percent = 40 + (cubeCount / totalCubes) * 50
CubePercent(count, total) ==
  RAdd(Int2Rat(40), RMul(Rat(count, total), Int2Rat(50)))

\* Entry of marchingCubes up to the start of the sampling loop, or the throw.
Call(f, opts) ==
  /\ UNCHANGED notMesherVars
  /\ pc = "idle"
  /\ field' = f
  /\ options' = opts
  /\ resolution' = OrDefault(opts.resolution, Int2Rat(DefaultResolution)).n
  /\ bounds' = CallBounds(f, opts)
  /\ maxMemoryMB' = OrDefault(opts.maxMemoryMB, Int2Rat(DefaultMaxMemoryMB))
  /\ IF RGt(EstimatedMemory(resolution'), maxMemoryMB')
     THEN /\ pc' = "thrown"
          /\ maxResolution' = Some(MaxResolution(maxMemoryMB'))
          /\ UNCHANGED <<grid, sampledAt, sampleCount, cubeCount, vertices, normals,
                         indices, progress, mesh>>
     ELSE /\ pc' = "sampling"
          /\ UNCHANGED maxResolution
          /\ progress' = <<Int2Rat(0), Int2Rat(10)>>
          /\ vertices' = <<>>
          /\ normals' = <<>>
          /\ indices' = <<>>
          /\ grid' = [idx \in 0..((resolution' + 1) ^ 3 - 1) |-> Int2Rat(0)]
          /\ sampledAt' = [idx \in 0..((resolution' + 1) ^ 3 - 1) |-> Absent]
          /\ sampleCount' = 0
          /\ UNCHANGED <<cubeCount, mesh>>

\* One iteration of the sampling loops (k outer, j, i inner): the loop counters are
\* those of iteration number sampleCount.
SampleStep ==
  /\ UNCHANGED notMesherVars
  /\ UNCHANGED maxResolution
  /\ pc = "sampling"
  /\ sampleCount < (resolution + 1) ^ 3
  /\ LET n == resolution + 1
         i == sampleCount % n
         j == (sampleCount \div n) % n
         k == sampleCount \div (n * n)
         p == GridPoint(i, j, k)
         totalSamples == (resolution + 1) ^ 3
     IN /\ grid' = [grid EXCEPT ![GetIndex(i, j, k)] = Evaluate(field, p)]
        /\ sampledAt' = [sampledAt EXCEPT ![GetIndex(i, j, k)] = Some(p)]
        /\ sampleCount' = sampleCount + 1
        /\ progress' =
             IF sampleCount' % SampleProgressEvery = 0
             THEN Append(progress, SamplePercent(sampleCount', totalSamples))
             ELSE progress
  /\ UNCHANGED <<pc, field, options, resolution, maxMemoryMB, bounds, cubeCount,
                 vertices, normals, indices, mesh>>

StartTriangulating ==
  /\ UNCHANGED notMesherVars
  /\ UNCHANGED maxResolution
  /\ pc = "sampling"
  /\ sampleCount = (resolution + 1) ^ 3
  /\ progress' = Append(progress, Int2Rat(40))
  /\ cubeCount' = 0
  /\ pc' = "triangulating"
  /\ UNCHANGED <<field, options, resolution, maxMemoryMB, bounds, grid, sampledAt,
                 sampleCount, vertices, normals, indices, mesh>>

\* One iteration of the cube loops (k outer, j, i inner).
CubeStep ==
  /\ UNCHANGED notMesherVars
  /\ UNCHANGED maxResolution
  /\ pc = "triangulating"
  /\ cubeCount < resolution ^ 3
  /\ LET i == cubeCount % resolution
         j == (cubeCount \div resolution) % resolution
         k == cubeCount \div (resolution * resolution)
         cube == [c \in 0..7 |->
                    grid[GetIndex(i + cornerOffsets[c + 1][1],
                                  j + cornerOffsets[c + 1][2],
                                  k + cornerOffsets[c + 1][3])]]
         basePos == GridPoint(i, j, k)
         out == MarchCube(cube, basePos, Step, vertices, normals, indices, field)
         totalCubes == resolution ^ 3
     IN /\ vertices' = out.vertices
        /\ normals' = out.normals
        /\ indices' = out.indices
        /\ cubeCount' = cubeCount + 1
        /\ progress' =
             IF cubeCount' % CubeProgressEvery = 0
             THEN Append(progress, CubePercent(cubeCount', totalCubes))
             ELSE progress
  /\ UNCHANGED <<pc, field, options, resolution, maxMemoryMB, bounds, grid, sampledAt,
                 sampleCount, mesh>>

Finalize ==
  /\ UNCHANGED notMesherVars
  /\ UNCHANGED maxResolution
  /\ pc = "triangulating"
  /\ cubeCount = resolution ^ 3
  /\ progress' = Append(progress, Int2Rat(90))
  /\ pc' = "finalizing"
  /\ UNCHANGED <<field, options, resolution, maxMemoryMB, bounds, grid, sampledAt,
                 sampleCount, cubeCount, vertices, normals, indices, mesh>>

Return ==
  /\ UNCHANGED notMesherVars
  /\ UNCHANGED maxResolution
  /\ pc = "finalizing"
  /\ progress' = Append(progress, Int2Rat(100))
  /\ mesh' = Some([vertices |-> vertices,
                   normals |-> normals,
                   indices |-> indices,
                   vertexCount |-> Rat(Len(vertices), 3),
                   triangleCount |-> Rat(Len(indices), 3),
                   bounds |-> bounds])
  /\ pc' = "done"
  /\ UNCHANGED <<field, options, resolution, maxMemoryMB, bounds, grid, sampledAt,
                 sampleCount, cubeCount, vertices, normals, indices>>

\* ------------------------------------------------------------------------
\* Distances: the number (coef * sqrt(rad) + add) / den, den > 0, rad >= 0
\* ------------------------------------------------------------------------
Num(coef, rad, add, den) == [coef |-> coef, rad |-> rad, add |-> add, den |-> den]

NumInt(k) == Num(0, 0, k, 1)

\* Math.sqrt(n) for an integer n >= 0
NumSqrt(n) == Num(1, n, 0, 1)

NumNeg(a) == Num(-a.coef, a.rad, -a.add, a.den)

\* a plus the integer k
NumAddInt(a, k) == Num(a.coef, a.rad, a.add + k * a.den, a.den)

\* k * |k| : the square of k with the sign of k
SignedSq(k) == k * Abs(k)

\* sgn(U) * sqrt(|U|) <= sgn(V) * sqrt(|V|) + c, for integers U, V, c
LeqRad(U, V, c) ==
  LET wNonNeg == V >= SignedSq(-c)
      K == Sign(c) * Sign(V) * 4 * c * c * Abs(V)
      L == Abs(U) - Abs(V) - c * c
  IN IF c = 0 THEN U <= V
     ELSE IF U <= 0 /\ wNonNeg THEN TRUE
     ELSE IF U > 0 /\ ~wNonNeg THEN FALSE
     ELSE IF U > 0 THEN SignedSq(L) <= K
     ELSE K <= SignedSq(L)

\* a <= b
NumLeq(a, b) ==
  LET A == a.coef * b.den
      B == b.coef * a.den
  IN LeqRad(SignedSq(A) * a.rad, SignedSq(B) * b.rad, b.add * a.den - a.add * b.den)

NumLt(a, b) == ~NumLeq(b, a)

NumEq(a, b) == NumLeq(a, b) /\ NumLeq(b, a)

NumMin(a, b) == IF NumLeq(a, b) THEN a ELSE b

NumMax(a, b) == IF NumLeq(a, b) THEN b ELSE a

RECURSIVE NumMinSeq(_)
NumMinSeq(s) == IF Len(s) = 1 THEN s[1] ELSE NumMin(s[1], NumMinSeq(Tail(s)))

RECURSIVE NumMaxSeq(_)
NumMaxSeq(s) == IF Len(s) = 1 THEN s[1] ELSE NumMax(s[1], NumMaxSeq(Tail(s)))

\* ------------------------------------------------------------------------
\* Vec3 and Bounds on integer coordinates
\* ------------------------------------------------------------------------
Vec(x, y, z) == [x |-> x, y |-> y, z |-> z]

Max2(a, b) == IF a >= b THEN a ELSE b

Min2(a, b) == IF a <= b THEN a ELSE b

Max3(a, b, c) == Max2(a, Max2(b, c))

Vec3_add(a, b) == Vec(a.x + b.x, a.y + b.y, a.z + b.z)

Vec3_sub(a, b) == Vec(a.x - b.x, a.y - b.y, a.z - b.z)

Vec3_mul(v, s) == Vec(v.x * s, v.y * s, v.z * s)

Vec3_dot(a, b) == a.x * b.x + a.y * b.y + a.z * b.z

Vec3_lengthSq(v) == v.x * v.x + v.y * v.y + v.z * v.z

\* Vec3.length and Vec3.normalize are modelled on vectors along one axis (and
\* the zero vector), where both are exact: the length is the absolute value of
\* the one component, the unit vector its sign; the zero vector normalizes to
\* itself.
Vec3_length(v) == Abs(v.x) + Abs(v.y) + Abs(v.z)

Vec3_normalize(v) == Vec(Sign(v.x), Sign(v.y), Sign(v.z))

\* Vec3.distance as a number with a square root
Vec3_distance(a, b) == NumSqrt(Vec3_lengthSq(Vec3_sub(a, b)))

Vec3_clamp(v, lo, hi) ==
  Vec(Max2(lo.x, Min2(hi.x, v.x)), Max2(lo.y, Min2(hi.y, v.y)), Max2(lo.z, Min2(hi.z, v.z)))

Bounds_create(lo, hi) == [min |-> lo, max |-> hi]

Bounds_expand(b, value) ==
  Bounds_create(Vec3_sub(b.min, Vec(value, value, value)),
                Vec3_add(b.max, Vec(value, value, value)))

Bounds_union(a, b) ==
  Bounds_create(Vec(Min2(a.min.x, b.min.x), Min2(a.min.y, b.min.y), Min2(a.min.z, b.min.z)),
                Vec(Max2(a.max.x, b.max.x), Max2(a.max.y, b.max.y), Max2(a.max.z, b.max.z)))

Bounds_intersection(a, b) ==
  Bounds_create(Vec(Max2(a.min.x, b.min.x), Max2(a.min.y, b.min.y), Max2(a.min.z, b.min.z)),
                Vec(Min2(a.max.x, b.max.x), Min2(a.max.y, b.max.y), Min2(a.max.z, b.max.z)))

Bounds_contains(b, point) ==
  /\ point.x >= b.min.x /\ point.x <= b.max.x
  /\ point.y >= b.min.y /\ point.y <= b.max.y
  /\ point.z >= b.min.z /\ point.z <= b.max.z

Bounds_size(b) == Vec3_sub(b.max, b.min)

\* ------------------------------------------------------------------------
\* Field objects and the Primitives constructors
\* ------------------------------------------------------------------------
\* A Field: what its _evaluate closure captured (type, arg, the fields it wraps)
\* and its _bounds, absent until a constructor assigns them.
NewField(type, arg, kids, b) == [type |-> type, arg |-> arg, kids |-> kids, _bounds |-> b]

\* A constructor call either throws or returns a Field.
Threw == [threw |-> TRUE, field |-> Absent]

Returned(f) == [threw |-> FALSE, field |-> Some(f)]

Field_defaultBounds == Bounds_create(Vec(-1000, -1000, -1000), Vec(1000, 1000, 1000))

Field_bounds(f) == IF IsAbsent(f._bounds) THEN Field_defaultBounds ELSE f._bounds[1]

\* Mutant: the size taken as the half extent.
Whole(n) == n

\* size * 0.5, on even sizes
Half(n) == n \div 2

Primitives_sphere(center, radius) ==
  IF radius <= 0 THEN Threw
  ELSE Returned(NewField("sphere", [center |-> center, radius |-> radius], <<>>,
         Some(Bounds_create(Vec3_sub(center, Vec(radius, radius, radius)),
                            Vec3_add(center, Vec(radius, radius, radius))))))

Primitives_box(center, size) ==
  IF size.x <= 0 \/ size.y <= 0 \/ size.z <= 0 THEN Threw
  ELSE LET halfSize == Vec(Half(size.x), Half(size.y), Half(size.z))
       IN Returned(NewField("box", [center |-> center, halfSize |-> halfSize], <<>>,
            Some(Bounds_create(Vec3_sub(center, halfSize), Vec3_add(center, halfSize)))))

\* Vec3.distance(start, end) < 0.0001
TooClose(start, end) == Vec3_length(Vec3_sub(end, start)) * 10000 < 1

\* the box of a segment widened by the radius (cylinder and capsule)
SegmentBounds(start, end, radius) ==
  Bounds_create(Vec(Min2(start.x, end.x) - radius, Min2(start.y, end.y) - radius,
                    Min2(start.z, end.z) - radius),
                Vec(Max2(start.x, end.x) + radius, Max2(start.y, end.y) + radius,
                    Max2(start.z, end.z) + radius))

Primitives_cylinder(start, end, radius) ==
  IF radius <= 0 THEN Threw
  ELSE IF TooClose(start, end) THEN Threw
  ELSE Returned(NewField("cylinder",
         [start |-> start, axis |-> Vec3_normalize(Vec3_sub(end, start)),
          height |-> Vec3_length(Vec3_sub(end, start)), radius |-> radius], <<>>,
         Some(SegmentBounds(start, end, radius))))

Primitives_cone(base, tip, radius) ==
  IF radius <= 0 THEN Threw
  ELSE IF TooClose(base, tip) THEN Threw
  ELSE Returned(NewField("cone",
         [base |-> base, tip |-> tip, axis |-> Vec3_normalize(Vec3_sub(tip, base)),
          height |-> Vec3_length(Vec3_sub(tip, base)), radius |-> radius], <<>>,
         Some(Bounds_create(
                Vec(Min2(base.x - radius, tip.x), Min2(base.y - radius, tip.y),
                    Min2(base.z - radius, tip.z)),
                Vec(Max2(base.x + radius, tip.x), Max2(base.y + radius, tip.y),
                    Max2(base.z + radius, tip.z))))))

Primitives_capsule(start, end, radius) ==
  IF radius <= 0 THEN Threw
  ELSE LET lineVec == Vec3_sub(end, start)
       IN Returned(NewField("capsule",
            [start |-> start, lineLength |-> Vec3_length(lineVec),
             lineDir |-> Vec3_normalize(lineVec), radius |-> radius], <<>>,
            Some(SegmentBounds(start, end, radius))))

Primitives_torus(center, normal, majorRadius, minorRadius) ==
  IF majorRadius <= 0 \/ minorRadius <= 0 THEN Threw
  ELSE LET r == majorRadius + minorRadius
       IN Returned(NewField("torus",
            [center |-> center, n |-> Vec3_normalize(normal),
             majorRadius |-> majorRadius, minorRadius |-> minorRadius], <<>>,
            Some(Bounds_create(Vec3_sub(center, Vec(r, r, r)), Vec3_add(center, Vec(r, r, r))))))

Primitives_plane(point, normal) ==
  Returned(NewField("plane", [point |-> point, n |-> Vec3_normalize(normal)], <<>>,
    Some(Bounds_create(Vec(-10000, -10000, -10000), Vec(10000, 10000, 10000)))))

\* the values of typeof fn === 'function'
ImplicitFns == {"sphere", "plane", "saddle", "zero"}

\* Primitives.implicit(fn, bounds): bounds is stored as passed, absent included
Primitives_implicit(fn, b) ==
  IF fn \notin ImplicitFns THEN Threw
  ELSE Returned(NewField("implicit", [fn |-> fn], <<>>, b))

\* ------------------------------------------------------------------------
\* Boolean, Transform, Modify and Lattice constructors
\* ------------------------------------------------------------------------
\* fields.reduce((acc, f) => acc ? combine(acc, f.bounds()) : f.bounds(), null)
RECURSIVE ReduceBounds(_, _, _)
ReduceBounds(fields, intersect, acc) ==
  IF Len(fields) = 0 THEN acc
  ELSE LET b == Field_bounds(Head(fields))
           next == IF IsAbsent(acc) THEN Some(b)
                   ELSE IF intersect THEN Some(Bounds_intersection(acc[1], b))
                   ELSE Some(Bounds_union(acc[1], b))
       IN ReduceBounds(Tail(fields), intersect, next)

Boolean_union(fields) ==
  IF Len(fields) = 0 THEN Threw
  ELSE IF Len(fields) = 1 THEN Returned(fields[1])
  ELSE Returned(NewField("union", <<>>, fields, ReduceBounds(fields, FALSE, Absent)))

Boolean_intersection(fields) ==
  IF Len(fields) = 0 THEN Threw
  ELSE IF Len(fields) = 1 THEN Returned(fields[1])
  ELSE Returned(NewField("intersection", <<>>, fields, ReduceBounds(fields, TRUE, Absent)))

Boolean_difference(a, b) ==
  Returned(NewField("difference", <<>>, <<a, b>>, Some(Field_bounds(a))))

Boolean_xor(a, b) ==
  Returned(NewField("xor", <<>>, <<a, b>>,
                    Some(Bounds_union(Field_bounds(a), Field_bounds(b)))))

Transform_translate(fld, offset) ==
  LET b == Field_bounds(fld)
  IN Returned(NewField("translate", [offset |-> offset], <<fld>>,
       Some(Bounds_create(Vec3_add(b.min, offset), Vec3_add(b.max, offset)))))

\* s is the vector of factors; a number n stands for (n, n, n)
Transform_scale(fld, s, center) ==
  IF s.x <= 0 \/ s.y <= 0 \/ s.z <= 0 THEN Threw
  ELSE LET b == Field_bounds(fld)
       IN Returned(NewField("scale", [s |-> s, center |-> center], <<fld>>,
            Some(Bounds_create(
                   Vec(center.x + (b.min.x - center.x) * s.x,
                       center.y + (b.min.y - center.y) * s.y,
                       center.z + (b.min.z - center.z) * s.z),
                   Vec(center.x + (b.max.x - center.x) * s.x,
                       center.y + (b.max.y - center.y) * s.y,
                       center.z + (b.max.z - center.z) * s.z)))))

Transform_mirror(fld, planePoint, planeNormal) ==
  Returned(NewField("mirror", [planePoint |-> planePoint, n |-> Vec3_normalize(planeNormal)],
    <<fld>>, Some(Field_bounds(fld))))

Modify_offset(fld, distance) ==
  Returned(NewField("offset", [distance |-> distance], <<fld>>,
    Some(Bounds_expand(Field_bounds(fld), Abs(distance)))))

Modify_shell(fld, thickness) ==
  IF thickness <= 0 THEN Threw
  ELSE Boolean_difference(fld, Modify_offset(fld, -thickness).field[1])

\* Mutant: the inner offset is outward as well.
Modify_filletOutwardTwice(fld, radius) ==
  IF radius <= 0 THEN Threw
  ELSE Modify_offset(Modify_offset(fld, radius).field[1], radius)

\* Modify.offset(Modify.offset(field, -radius), radius)
Modify_fillet(fld, radius) ==
  IF radius <= 0 THEN Threw
  ELSE Modify_offset(Modify_offset(fld, -radius).field[1], radius)

\* distance * 0.5, on even distances
Modify_chamfer(fld, distance) ==
  IF distance <= 0 THEN Threw
  ELSE Modify_offset(fld, -Half(distance))

LatticeTypes == {"gyroid", "schwarzP", "diamond", "schwarzD", "cubic", "octet"}

\* Lattice.gyroid, schwarzP, diamond, schwarzD (thickness) and cubic, octet
\* (beamThickness): no argument is checked
Lattice(type, b, cellSize, thickness) ==
  Returned(NewField(type, [bounds |-> b, cellSize |-> cellSize, thickness |-> thickness],
    <<>>, Some(b)))

\* ------------------------------------------------------------------------
\* _evaluate of the fields
\* ------------------------------------------------------------------------
\* Math.sin and Math.cos of x * freq, freq = 2 * PI / cellSize, on the points
\* where x * freq is a whole number of quarter turns.
QuarterTurns(x, cellSize) == ((4 * x) \div cellSize) % 4

SinQ(q) == CASE q = 0 -> 0 [] q = 1 -> 1 [] q = 2 -> 0 [] q = 3 -> -1

CosQ(q) == SinQ((q + 1) % 4)

\* ((x % s) + s) % s
Mod(x, s) == x % s

\* Mutant: the guard that looks at x and y only.
OutsideLatticeBoundsXY(b, p) ==
  \/ p.x < b.min.x \/ p.x > b.max.x
  \/ p.y < b.min.y \/ p.y > b.max.y

\* the guard at the head of every lattice's _evaluate
OutsideLatticeBounds(b, p) ==
  \/ p.x < b.min.x \/ p.x > b.max.x
  \/ p.y < b.min.y \/ p.y > b.max.y
  \/ p.z < b.min.z \/ p.z > b.max.z

\* the value returned under the guard: the distance to the bounding box
LatticeBoxDistance(b, p) ==
  LET dx == Max3(b.min.x - p.x, p.x - b.max.x, 0)
      dy == Max3(b.min.y - p.y, p.y - b.max.y, 0)
      dz == Max3(b.min.z - p.z, p.z - b.max.z, 0)
  IN NumSqrt(dx * dx + dy * dy + dz * dz)

\* the value of the periodic pattern, past the guard
LatticePattern(type, cellSize, thickness, p) ==
  LET sx == SinQ(QuarterTurns(p.x, cellSize))
      sy == SinQ(QuarterTurns(p.y, cellSize))
      sz == SinQ(QuarterTurns(p.z, cellSize))
      cx == CosQ(QuarterTurns(p.x, cellSize))
      cy == CosQ(QuarterTurns(p.y, cellSize))
      cz == CosQ(QuarterTurns(p.z, cellSize))
      mx == Mod(p.x, cellSize)
      my == Mod(p.y, cellSize)
      mz == Mod(p.z, cellSize)
      dx == Min2(mx, cellSize - mx)
      dy == Min2(my, cellSize - my)
      dz == Min2(mz, cellSize - mz)
      \* |m| / Math.sqrt(2)
      Diag(m) == Num(1, 2 * m * m, 0, 2)
  IN CASE type = "gyroid" ->
            NumInt(Abs(sx * cy + sy * cz + sz * cx) - thickness)
       [] type = "schwarzP" ->
            NumInt(Abs(cx + cy + cz) - thickness)
       [] type = "diamond" ->
            NumInt(Abs(sx * sy * sz + sx * cy * cz + cx * sy * cz + cx * cy * sz) - thickness)
       [] type = "schwarzD" ->
            NumInt(Abs(sx * sy * sz - sx * cy * cz - cx * sy * cz - cx * cy * sz) - thickness)
       [] type = "cubic" ->
            NumAddInt(NumMinSeq(<<NumSqrt(dy * dy + dz * dz), NumSqrt(dx * dx + dz * dz),
                                  NumSqrt(dx * dx + dy * dy)>>), -thickness)
       [] type = "octet" ->
            NumAddInt(NumMinSeq(<<Diag(mx + my - cellSize), Diag(mx - my),
                                  Diag(my + mz - cellSize), Diag(my - mz),
                                  Diag(mz + mx - cellSize), Diag(mz - mx)>>), -thickness)

Lattice_evaluate(f, p) ==
  IF OutsideLatticeBounds(f.arg.bounds, p) THEN LatticeBoxDistance(f.arg.bounds, p)
  ELSE LatticePattern(f.type, f.arg.cellSize, f.arg.thickness, p)

Box_evaluate(center, halfSize, p) ==
  LET dx == Abs(p.x - center.x) - halfSize.x
      dy == Abs(p.y - center.y) - halfSize.y
      dz == Abs(p.z - center.z) - halfSize.z
      ox == Max2(dx, 0)
      oy == Max2(dy, 0)
      oz == Max2(dz, 0)
      inside == Min2(Max3(dx, dy, dz), 0)
  IN Num(1, ox * ox + oy * oy + oz * oz, inside, 1)

Capsule_evaluate(a, p) ==
  LET v == Vec3_sub(p, a.start)
      proj == Vec3_dot(v, a.lineDir)
      t == Max2(0, Min2(a.lineLength, proj))
      closest == Vec3_add(a.start, Vec3_mul(a.lineDir, t))
  IN NumAddInt(Vec3_distance(p, closest), -a.radius)

\* ------------------------------------------------------------------------
\* Sketch and Extrude.linear.  A sketch is its elements and its closed flag;
\* the coordinates are integers.  A 2D distance is an integer or the square
\* root of an integer over an integer: Num(0, 0, a, 1) or Num(1, N, 0, L).
\* ------------------------------------------------------------------------
Vec2(x, y) == [x |-> x, y |-> y]

IsSquare(n) == \E k \in 0..n : k * k = n

IntRoot(n) == CHOOSE k \in 0..n : k * k = n

\* Math.sqrt(n), an integer when n is a square
RootOf(n) == IF IsSquare(n) THEN NumInt(IntRoot(n)) ELSE NumSqrt(n)

\* Math.abs(a)
NumAbs(a) == IF NumLeq(NumInt(0), a) THEN a ELSE NumNeg(a)

\* new Sketch()
Sketch_new == [elements |-> <<>>, closed |-> FALSE]

\* sketch.circle(center, radius)
Sketch_circle(s, center, radius) ==
  [elements |-> Append(s.elements, [type |-> "circle", center |-> center, radius |-> radius]),
   closed |-> TRUE]

SketchLine(x1, y1, x2, y2) == [type |-> "line", start |-> Vec2(x1, y1), end |-> Vec2(x2, y2)]

\* sketch.rectangle(corner, width, height)
Sketch_rectangle(s, c, width, height) ==
  [elements |-> s.elements \o
     <<SketchLine(c.x, c.y, c.x + width, c.y),
       SketchLine(c.x + width, c.y, c.x + width, c.y + height),
       SketchLine(c.x + width, c.y + height, c.x, c.y + height),
       SketchLine(c.x, c.y + height, c.x, c.y)>>,
   closed |-> TRUE]

\* sketch.close()
Sketch_close(s) == [s EXCEPT !.closed = TRUE]

Sq(a) == a * a

\* Math.sqrt(N) / L
RootOver(N, L) ==
  IF IsSquare(N) /\ IntRoot(N) % L = 0 THEN NumInt(IntRoot(N) \div L) ELSE Num(1, N, 0, L)

\* the 'line' case of _distanceToElement: (ax, ay) is p - start, (lx, ly) is
\* end - start, L is lineLen * lineLen and tL is t * L for
\* t = Math.max(0, Math.min(1, dot / L)), so L * (p - closest) is
\* L * (ax, ay) - tL * (lx, ly)
LineDistanceClamped(ax, ay, lx, ly, L, tL) ==
  IF L = 0 THEN RootOf(Sq(ax) + Sq(ay))
  ELSE RootOver(Sq(L * ax - lx * tL) + Sq(L * ay - ly * tL), L)

LineDistance(ax, ay, lx, ly) ==
  LineDistanceClamped(ax, ay, lx, ly, Sq(lx) + Sq(ly),
                      Max2(0, Min2(Sq(lx) + Sq(ly), ax * lx + ay * ly)))

\* Sketch._distanceToElement(elem, x, y), for lines and circles
Sketch_distanceToElement(elem, x, y) ==
  IF elem.type = "line"
  THEN LineDistance(x - elem.start.x, y - elem.start.y,
                    elem.end.x - elem.start.x, elem.end.y - elem.start.y)
  ELSE \* 'circle': Math.abs(Vec2.distance(p, elem.center) - elem.radius)
       NumAbs(NumAddInt(RootOf(Sq(x - elem.center.x) + Sq(y - elem.center.y)), -elem.radius))

\* if (Math.abs(dist) < Math.abs(minDist)) minDist = dist; minDist is absent
\* while it is Infinity
Closer(dist, minDist) ==
  IF IsAbsent(minDist) THEN Some(dist)
  ELSE IF NumLt(NumAbs(dist), NumAbs(minDist[1])) THEN Some(dist)
  ELSE minDist

\* the loop of toSDF2D from element i on
RECURSIVE Sketch_minDistFrom(_, _, _, _, _)
Sketch_minDistFrom(s, i, minDist, x, y) ==
  IF i > Len(s.elements) THEN minDist
  ELSE Sketch_minDistFrom(s, i + 1,
                          Closer(Sketch_distanceToElement(s.elements[i], x, y), minDist), x, y)

\* (y1 > y) !== (y2 > y) && x < (x2 - x1) * (y - y1) / (y2 - y1) + x1
Crosses(x1, y1, x2, y2, x, y) ==
  /\ (y1 > y) # (y2 > y)
  /\ IF y2 > y1 THEN (x - x1) * (y2 - y1) < (x2 - x1) * (y - y1)
     ELSE (x - x1) * (y2 - y1) > (x2 - x1) * (y - y1)

\* Sketch._pointInPolygon(x, y): ray casting over the line elements
Sketch_pointInPolygon(s, x, y) ==
  Cardinality({i \in 1..Len(s.elements) :
                 /\ s.elements[i].type = "line"
                 /\ Crosses(s.elements[i].start.x, s.elements[i].start.y,
                            s.elements[i].end.x, s.elements[i].end.y, x, y)}) % 2 = 1

\* isInside ? -Math.abs(minDist) : Math.abs(minDist), or minDist when open
SignedDistance(closed, isInside, minDist) ==
  IF ~closed THEN minDist
  ELSE IF isInside THEN NumNeg(NumAbs(minDist))
  ELSE NumAbs(minDist)

\* the function returned by sketch.toSDF2D(), on a sketch with elements
Sketch_toSDF2D(s, x, y) ==
  SignedDistance(s.closed, Sketch_pointInPolygon(s, x, y),
                 Sketch_minDistFrom(s, 1, Absent, x, y)[1])

Least(S) == CHOOSE v \in S : \A w \in S : v <= w

Greatest(S) == CHOOSE v \in S : \A w \in S : w <= v

\* the extent of the elements along x (axis 1) or y (axis 2)
ElementExtent(s, axis) ==
  UNION {IF s.elements[i].type = "line"
         THEN IF axis = 1 THEN {s.elements[i].start.x, s.elements[i].end.x}
              ELSE {s.elements[i].start.y, s.elements[i].end.y}
         ELSE IF axis = 1
              THEN {s.elements[i].center.x - s.elements[i].radius,
                    s.elements[i].center.x + s.elements[i].radius}
              ELSE {s.elements[i].center.y - s.elements[i].radius,
                    s.elements[i].center.y + s.elements[i].radius} :
         i \in 1..Len(s.elements)}

\* Sketch.bounds(), on a sketch with elements
Sketch_bounds(s) ==
  [min |-> Vec2(Least(ElementExtent(s, 1)), Least(ElementExtent(s, 2))),
   max |-> Vec2(Greatest(ElementExtent(s, 1)), Greatest(ElementExtent(s, 2)))]

\* Math.sqrt(dist2D * dist2D + c ** 2) for an integer c and dist2D >= 0
Hypot(d, c) ==
  IF d.coef = 0 THEN RootOf(Sq(d.add) + Sq(c))
  ELSE Num(1, d.rad + Sq(c) * Sq(d.den), 0, d.den)

\* field._bounds of Extrude.linear
ExtrudeBounds(bounds2D, distance) ==
  Bounds_create(Vec(bounds2D.min.x, bounds2D.min.y, 0),
                Vec(bounds2D.max.x, bounds2D.max.y, distance))

\* Extrude.linear(sketch, direction, distance), direction along an axis
Extrude_linear(s, direction, distance) ==
  NewField("extrude-linear",
           [sketch |-> s, dir |-> Vec3_normalize(direction), distance |-> distance], <<>>,
           Some(ExtrudeBounds(Sketch_bounds(s), distance)))

\* the branches of field._evaluate of Extrude.linear, with
\* distToBottom = -distAlongExtrusion and distToTop = distAlongExtrusion - distance
ExtrudeDistance(distAlongExtrusion, dist2D, distance) ==
  IF distAlongExtrusion >= 0 /\ distAlongExtrusion <= distance
  THEN IF NumLt(dist2D, NumInt(0))
       THEN NumMax(dist2D, NumInt(Max2(-distAlongExtrusion, distAlongExtrusion - distance)))
       ELSE dist2D
  ELSE IF NumLt(dist2D, NumInt(0))
       THEN NumInt(Abs(IF distAlongExtrusion < 0 THEN -distAlongExtrusion
                       ELSE distAlongExtrusion - distance))
       ELSE Hypot(dist2D,
                  Max2(Max2(-distAlongExtrusion, distAlongExtrusion - distance), 0))

\* field._evaluate of Extrude.linear
ExtrudeLinear_evaluate(a, p) ==
  ExtrudeDistance(Vec3_dot(p, a.dir), Sketch_toSDF2D(a.sketch, p.x, p.y), a.distance)

\* the fields whose _evaluate is computed here
RECURSIVE Evaluable(_)
Evaluable(f) ==
  /\ f.type \in {"sphere", "box", "capsule", "plane", "union", "intersection", "difference",
                  "xor", "translate", "mirror", "offset", "extrude-linear"}
               \cup LatticeTypes
  /\ \A i \in 1..Len(f.kids) : Evaluable(f.kids[i])

\* Mutant: the difference without the negation of the second distance.
Difference_evaluateUnnegated(da, db) == NumMax(da, db)

\* Math.max(a._evaluate(p), -b._evaluate(p))
Difference_evaluate(da, db) == NumMax(da, NumNeg(db))

\* Math.max(Math.min(da, -db), Math.min(-da, db))
Xor_evaluate(da, db) == NumMax(NumMin(da, NumNeg(db)), NumMin(NumNeg(da), db))

RECURSIVE Field_evaluate(_, _)
Field_evaluate(f, p) ==
  CASE f.type = "sphere" -> NumAddInt(Vec3_distance(p, f.arg.center), -f.arg.radius)
    [] f.type = "box" -> Box_evaluate(f.arg.center, f.arg.halfSize, p)
    [] f.type = "capsule" -> Capsule_evaluate(f.arg, p)
    [] f.type = "plane" -> NumInt(Vec3_dot(Vec3_sub(p, f.arg.point), f.arg.n))
    [] f.type \in LatticeTypes -> Lattice_evaluate(f, p)
    [] f.type = "union" ->
         NumMinSeq([i \in 1..Len(f.kids) |-> Field_evaluate(f.kids[i], p)])
    [] f.type = "intersection" ->
         NumMaxSeq([i \in 1..Len(f.kids) |-> Field_evaluate(f.kids[i], p)])
    [] f.type = "difference" ->
         Difference_evaluate(Field_evaluate(f.kids[1], p), Field_evaluate(f.kids[2], p))
    [] f.type = "xor" ->
         Xor_evaluate(Field_evaluate(f.kids[1], p), Field_evaluate(f.kids[2], p))
    [] f.type = "translate" -> Field_evaluate(f.kids[1], Vec3_sub(p, f.arg.offset))
    [] f.type = "mirror" ->
         LET v == Vec3_sub(p, f.arg.planePoint)
             dist == Vec3_dot(v, f.arg.n)
         IN Field_evaluate(f.kids[1], Vec3_sub(p, Vec3_mul(f.arg.n, 2 * dist)))
    [] f.type = "offset" -> NumAddInt(Field_evaluate(f.kids[1], p), -f.arg.distance)
    [] f.type = "extrude-linear" -> ExtrudeLinear_evaluate(f.arg, p)

\* this._bounds && !Bounds.contains(this._bounds, p)
OutsideStoredBounds(f, p) == ~IsAbsent(f._bounds) /\ ~Bounds_contains(f._bounds[1], p)

\* Field.sample(p): the result object, and whether _evaluate was called for it
Field_sample(f, p) ==
  IF OutsideStoredBounds(f, p)
  THEN LET b == f._bounds[1]
           \* twice p - Bounds.center(b), and twice maxDim
           toCenter2 == Vec3_sub(Vec3_mul(p, 2), Vec3_add(b.min, b.max))
           size == Bounds_size(b)
           maxDim2 == Max3(size.x, size.y, size.z)
       IN [distance |-> Num(1, Vec3_lengthSq(toCenter2), -maxDim2, 2),
           outsideBounds |-> TRUE, evaluated |-> FALSE]
  ELSE [distance |-> Field_evaluate(f, p), point |-> p, evaluated |-> TRUE]

\* ------------------------------------------------------------------------
\* Mesher.toSTL
\* ------------------------------------------------------------------------
\* A byte of the buffer.  A byte written by setUint8, setUint16 or setUint32 is
\* its value 0..255 (k = 0).  A byte written by setFloat32 is byte k (0..3) of
\* the little-endian 32-bit float of the number val / sqrt(over).
Byte(n) == [kind |-> "u8", val |-> Int2Rat(n), over |-> Int2Rat(1), k |-> 0]

FloatByte(val, over, k) == [kind |-> "f32", val |-> val, over |-> over, k |-> k]

\* Mutant: the four bytes of v, most significant first.
Uint32BytesBigEndian(v) ==
  <<Byte((v \div 16777216) % 256), Byte((v \div 65536) % 256), Byte((v \div 256) % 256),
    Byte(v % 256)>>

\* view.setUint32(offset, v, true): the four bytes of v, least significant first
Uint32Bytes(v) ==
  <<Byte(v % 256), Byte((v \div 256) % 256), Byte((v \div 65536) % 256),
    Byte((v \div 16777216) % 256)>>

\* view.setUint16(offset, v, true)
Uint16Bytes(v) == <<Byte(v % 256), Byte((v \div 256) % 256)>>

\* view.setFloat32(offset, val / sqrt(over), true)
Float32Bytes(val, over) ==
  <<FloatByte(val, over, 0), FloatByte(val, over, 1), FloatByte(val, over, 2),
    FloatByte(val, over, 3)>>

\* three setFloat32 at offset, offset + 4, offset + 8
Vec3Bytes(v, over) ==
  Float32Bytes(v.x, over) \o Float32Bytes(v.y, over) \o Float32Bytes(v.z, over)

\* the char codes of `FIXED Marching Cubes - `
HeaderPrefix ==
  <<70, 73, 88, 69, 68, 32, 77, 97, 114, 99, 104, 105, 110, 103, 32, 67, 117, 98, 101, 115,
    32, 45, 32>>

\* bytes 0..79 after the header loop: view.setUint8(i, header.charCodeAt(i)) for
\* i < Math.min(header.length, 80), setUint8 keeping the code modulo 256
HeaderBytes(header) ==
  SubSeq([i \in 1..80 |-> IF i <= Min2(Len(header), 80) THEN Byte(header[i] % 256)
                          ELSE Byte(0)], 1, 80)

\* vertex number i of the mesh (mesh.vertices[3i], [3i + 1], [3i + 2])
MeshVertex(m, i) ==
  [x |-> m.vertices[3 * i + 1], y |-> m.vertices[3 * i + 2], z |-> m.vertices[3 * i + 3]]

\* Mutant: the facet normal taken from the mesh's normals at the first vertex.
FaceNormalFromGradients(m, i0, i1, i2) ==
  [x |-> m.normals[3 * i0 + 1], y |-> m.normals[3 * i0 + 2],
   z |-> m.normals[3 * i0 + 3], over |-> Int2Rat(1)]

\* the facet normal: the cross product of the two edges from v0, each component
\* to be divided by sqrt(over), the squared length of the cross product (1 if
\* the length is 0 and the division is skipped)
FaceNormal(m, i0, i1, i2) ==
  LET v0 == MeshVertex(m, i0)
      v1 == MeshVertex(m, i1)
      v2 == MeshVertex(m, i2)
      e1 == [x |-> RSub(v1.x, v0.x), y |-> RSub(v1.y, v0.y), z |-> RSub(v1.z, v0.z)]
      e2 == [x |-> RSub(v2.x, v0.x), y |-> RSub(v2.y, v0.y), z |-> RSub(v2.z, v0.z)]
      nx == RSub(RMul(e1.y, e2.z), RMul(e1.z, e2.y))
      ny == RSub(RMul(e1.z, e2.x), RMul(e1.x, e2.z))
      nz == RSub(RMul(e1.x, e2.y), RMul(e1.y, e2.x))
      lengthSq == RAdd(RAdd(RMul(nx, nx), RMul(ny, ny)), RMul(nz, nz))
  IN [x |-> nx, y |-> ny, z |-> nz,
      over |-> IF RGt(lengthSq, Int2Rat(0)) THEN lengthSq ELSE Int2Rat(1)]

\* the 50 bytes one pass of the triangle loop writes, i = from
TriangleRecord(m, from) ==
  LET i0 == m.indices[from + 1]
      i1 == m.indices[from + 2]
      i2 == m.indices[from + 3]
      normal == FaceNormal(m, i0, i1, i2)
      one == Int2Rat(1)
  IN Vec3Bytes(normal, normal.over) \o Vec3Bytes(MeshVertex(m, i0), one)
       \o Vec3Bytes(MeshVertex(m, i1), one) \o Vec3Bytes(MeshVertex(m, i2), one)
       \o Uint16Bytes(0)

\* Mesher.toSTL(mesh, name), name given as its char codes.  The buffer has
\* 84 + triangleCount * 50 bytes (triangleCount is a whole number on the meshes
\* exported here); the triangle loop makes one pass per three indices and writes
\* at offset 84, 134, ...; a write past the end of the buffer throws a RangeError.
toSTL(m, name) ==
  LET size == 84 + m.triangleCount.n * 50
      passes == (Len(m.indices) + 2) \div 3
      head == HeaderBytes(HeaderPrefix \o name) \o Uint32Bytes(m.triangleCount.n)
      records == SubSeq([t \in 1..passes |-> TriangleRecord(m, 3 * (t - 1))], 1, passes)
  IN [rangeError |-> 84 + 50 * passes > size,
      bytes |-> SubSeq([i \in 1..size |->
                          IF i <= 84 THEN head[i]
                          ELSE IF (i - 85) \div 50 < passes
                          THEN records[((i - 85) \div 50) + 1][((i - 85) % 50) + 1]
                          ELSE Byte(0)], 1, size)]

\* names: 'model', a name of 60 chars (header of 83), a name with a char above 255
STLNames ==
  {<<109, 111, 100, 101, 108>>, [i \in 1..60 |-> 97 + (i % 26)], <<8364, 49>>}

\* Mesher.toSTL on the mesh the call returned
ToSTL ==
  /\ pc = "done"
  /\ IsAbsent(stl)
  /\ \E name \in STLNames : stl' = Some([name |-> name, buffer |-> toSTL(mesh[1], name)])
  /\ UNCHANGED <<mesherVars, cubeVars, fieldVars, obj, objectVars, paramVars, lateVars>>

\* ------------------------------------------------------------------------
\* Mesher.toOBJ.  The text is the sequence of its words (the pieces between
\* spaces) and line breaks, in order.
\* ------------------------------------------------------------------------
Word(s) == [t |-> "word", v |-> s]

\* "\n"
NL == [t |-> "nl", v |-> ""]

\* Number.prototype.toFixed(6) of a vertex coordinate: "NaN" for NaN, otherwise
\* the sign and the number of millionths nearest to |x|, the larger one on a
\* tie; of a gradient component: its six-decimal text, kept symbolic
toFixed6(x) ==
  IF DOMAIN x # {"n", "d"} THEN [of |-> x, digits |-> 6]
  ELSE IF x.d = 0 THEN [nan |-> TRUE, neg |-> FALSE, whole |-> 0, millionths |-> 0]
  ELSE LET a == Abs(x.n)
           u == (2 * (a % x.d) * 1000000 + x.d) \div (2 * x.d)
       IN [nan |-> FALSE, neg |-> x.n < 0,
           whole |-> (a \div x.d) + (u \div 1000000), millionths |-> u % 1000000]

Fixed(x) == [t |-> "fixed", v |-> toFixed6(x)]

\* `${n}` of a number
NumberText(n) == [t |-> "number", v |-> n]

\* mesh.indices[i] + 1
OBJIndex(i) == i + 1

\* `${i}//${i}`: position index and normal index
FaceRef(i) == [t |-> "ref", v |-> <<i, i>>]

\* `v ${x.toFixed(6)} ${y.toFixed(6)} ${z.toFixed(6)}\n` (keyword v or vn), i = from
OBJLine(keyword, values, from) ==
  <<Word(keyword), Fixed(values[from + 1]), Fixed(values[from + 2]), Fixed(values[from + 3]),
    NL>>

\* `f ${i1}//${i1} ${i2}//${i2} ${i3}//${i3}\n`, i = from
OBJFace(m, from) ==
  <<Word("f"), FaceRef(OBJIndex(m.indices[from + 1])), FaceRef(OBJIndex(m.indices[from + 2])),
    FaceRef(OBJIndex(m.indices[from + 3])), NL>>

\* the text a loop appends: its lines (each of `width` pieces) one after another
Appended(lines, width) ==
  SubSeq([k \in 1..(width * Len(lines)) |-> lines[((k - 1) \div width) + 1][((k - 1) % width) + 1]],
         1, width * Len(lines))

\* Mesher.toOBJ(mesh, name), name given as its words and line breaks
toOBJ(m, name) ==
  LET nv == (Len(m.vertices) + 2) \div 3
      nn == (Len(m.normals) + 2) \div 3
      nf == (Len(m.indices) + 2) \div 3
      head == <<Word("#"), Word("FIXED"), Word("Marching"), Word("Cubes"), Word("Export"), NL>>
                \o <<Word("#")>> \o name \o <<NL>>
                \o <<Word("#"), Word("Vertices:"), NumberText(m.vertexCount), NL>>
                \o <<Word("#"), Word("Triangles:"), NumberText(m.triangleCount), NL, NL>>
      vs == SubSeq([n \in 1..nv |-> OBJLine("v", m.vertices, 3 * (n - 1))], 1, nv)
      vns == SubSeq([n \in 1..nn |-> OBJLine("vn", m.normals, 3 * (n - 1))], 1, nn)
      fs == SubSeq([n \in 1..nf |-> OBJFace(m, 3 * (n - 1))], 1, nf)
  IN head \o Appended(vs, 5) \o <<NL>> \o Appended(vns, 5) \o <<NL>> \o Appended(fs, 5)

\* names: 'model', 'my part', 'v', and 'x' + '\n' + 'v 0 0 0'
OBJNames ==
  {<<Word("model")>>, <<Word("my"), Word("part")>>, <<Word("v")>>,
   <<Word("x"), NL, Word("v"), Word("0"), Word("0"), Word("0")>>}

\* Mesher.toOBJ on the mesh the call returned
ToOBJ ==
  /\ pc = "done"
  /\ IsAbsent(obj)
  /\ \E name \in OBJNames : obj' = Some([name |-> name, text |-> toOBJ(mesh[1], name)])
  /\ UNCHANGED <<mesherVars, cubeVars, fieldVars, stl, objectVars, paramVars, lateVars>>

\* ------------------------------------------------------------------------
\* Parameter, DerivedParameter and Parametric.field.  A JavaScript value is a
\* number (an integer here), NaN or undefined.
\* ------------------------------------------------------------------------
JSNum(n) == [t |-> "number", n |-> n]

JSNaN == [t |-> "NaN", n |-> 0]

JSUndefined == [t |-> "undefined", n |-> 0]

\* new Parameter(name, value, min, max)
Parameter_new(value, min, max) ==
  [kind |-> "Parameter", _value |-> JSNum(value), min |-> min, max |-> max,
   computeFn |-> "", sourceDependencies |-> <<>>, dependencies |-> <<>>, listeners |-> <<>>]

\* Parametric.param(name, value, min, max) in the world w
Parametric_param(w, name, value, min, max) ==
  [w EXCEPT !.params = (name :> Parameter_new(value, min, max)) @@ w.params]

\* `p.value`.  Parameter has a getter and a setter for value; DerivedParameter
\* defines the accessor again with a setter only, so on a DerivedParameter the
\* property has no getter and reading it gives undefined.
Parameter_value(ps, name) ==
  IF ps[name].kind = "DerivedParameter" THEN JSUndefined ELSE ps[name]._value

\* the compute functions of the script: (d) => d * 2, (h) => h + 1, and
\* (d) => { if (d > 2) throw ...; return d + 1 }
Compute(computeFn, values) ==
  LET x == values[1]
  IN IF x.t # "number" THEN [threw |-> FALSE, value |-> JSNaN]
     ELSE IF computeFn = "double" THEN [threw |-> FALSE, value |-> JSNum(x.n * 2)]
     ELSE IF computeFn = "increment" THEN [threw |-> FALSE, value |-> JSNum(x.n + 1)]
     ELSE IF x.n > 2 THEN [threw |-> TRUE, value |-> JSUndefined]
     ELSE [threw |-> FALSE, value |-> JSNum(x.n + 1)]

\* The parameters together with the two variables of the parametric field that
\* listens to them
World(ps, cached, rebuildFlag) ==
  [params |-> ps, cachedField |-> cached, needsRebuild |-> rebuildFlag]

RECURSIVE Parameter_notify(_, _), DerivedParameter_recompute(_, _), RecomputeEach(_, _)
\* _notify(): every listener (each one is `() => { needsRebuild = true }`), then
\* dep._recompute() for every dependent, in the order they were added
Parameter_notify(w, name) ==
  RecomputeEach(IF Len(w.params[name].listeners) > 0 THEN [w EXCEPT !.needsRebuild = TRUE] ELSE w,
                w.params[name].dependencies)

RecomputeEach(w, names) ==
  IF Len(names) = 0 THEN w
  ELSE RecomputeEach(DerivedParameter_recompute(w, Head(names)), Tail(names))

\* _recompute(): an exception of computeFn is caught and logged
DerivedParameter_recompute(w, name) ==
  LET p == w.params[name]
      values == [i \in 1..Len(p.sourceDependencies) |->
                   Parameter_value(w.params, p.sourceDependencies[i])]
      out == Compute(p.computeFn, values)
  IN IF out.threw THEN w
     ELSE Parameter_notify([w EXCEPT !.params[name]._value = out.value], name)

\* new DerivedParameter(name, computeFn, ...dependencies)
DerivedParameter_new(w, name, computeFn, sources) ==
  LET p == [kind |-> "DerivedParameter", _value |-> JSNum(0), min |-> 0, max |-> 0,
            computeFn |-> computeFn, sourceDependencies |-> sources, dependencies |-> <<>>,
            listeners |-> <<>>]
      added == (name :> p) @@ w.params
      registered == [n \in DOMAIN added |->
                       IF \E i \in 1..Len(sources) : sources[i] = n
                       THEN [added[n] EXCEPT !.dependencies = Append(@, name)]
                       ELSE added[n]]
  IN DerivedParameter_recompute([w EXCEPT !.params = registered], name)

\* `p.value = v` for an integer v: a Parameter clamps and notifies on a change,
\* a DerivedParameter warns and does nothing
Parameter_setValue(w, name, v) ==
  LET p == w.params[name]
      clamped == Max2(p.min, Min2(p.max, v))
  IN IF p.kind = "DerivedParameter" THEN w
     ELSE IF JSNum(clamped) # p._value
     THEN Parameter_notify([w EXCEPT !.params[name]._value = JSNum(clamped)], name)
     ELSE w

\* the build function of the script, (d, h) => Primitives.sphere(origin, d)
\* with h recorded: it throws when d is not positive
BuildFn(values) ==
  IF values[1].t = "number" /\ values[1].n <= 0 THEN [threw |-> TRUE, field |-> Absent]
  ELSE [threw |-> FALSE, field |-> Some([builtFrom |-> values])]

\* the parameters handed to Parametric.field
FieldParameters == <<"diameter", "headHeight">>

\* parameters.map(p => p.value)
ParameterValues(ps) == [i \in 1..Len(FieldParameters) |-> Parameter_value(ps, FieldParameters[i])]

\* Parametric.field(buildFn, ...parameters): a listener on every parameter
Parametric_field(w) ==
  [w EXCEPT !.params = [n \in DOMAIN w.params |->
                          IF \E i \in 1..Len(FieldParameters) : FieldParameters[i] = n
                          THEN [w.params[n] EXCEPT !.listeners = Append(@, "needsRebuild = true")]
                          ELSE w.params[n]],
            !.cachedField = Absent, !.needsRebuild = TRUE]

\* const rebuild = () => { try { ... } catch (err) { console.error(...) } }
Rebuild(w) ==
  LET out == BuildFn(ParameterValues(w.params))
  IN IF out.threw THEN w
     ELSE [w EXCEPT !.cachedField = out.field, !.needsRebuild = FALSE]

\* whether `get current()` calls rebuild
CurrentRebuilds(w) == w.needsRebuild \/ IsAbsent(w.cachedField)

\* get current(): the world after the read; the value read is its cachedField
Current(w) == IF CurrentRebuilds(w) THEN Rebuild(w) ELSE w

\* The script up to the first statement that is followed here:
\*   diameter = Parametric.param('diameter', 1, 0, 3)
\*   headHeight = Parametric.derived('headHeight', (d) => d * 2, diameter)
\*   total = Parametric.derived('total', (h) => h + 1, headHeight)
\*   guarded = Parametric.derived('guarded', (d) => { if (d > 2) throw ...; return d + 1 }, diameter)
\*   model = Parametric.field((d, h) => ..., diameter, headHeight)
DiameterMax == 3

ConstructedWorld ==
  LET w0 == World("diameter" :> Parameter_new(1, 0, DiameterMax), Absent, TRUE)
      w1 == DerivedParameter_new(w0, "headHeight", "double", <<"diameter">>)
      w2 == DerivedParameter_new(w1, "total", "increment", <<"headHeight">>)
      w3 == DerivedParameter_new(w2, "guarded", "guarded", <<"diameter">>)
  IN Parametric_field(w3)

NoReading ==
  [op |-> "none", of |-> "", value |-> JSUndefined, field |-> Absent, built |-> FALSE]

ParamIdle ==
  /\ params = ConstructedWorld.params
  /\ cachedField = ConstructedWorld.cachedField
  /\ needsRebuild = ConstructedWorld.needsRebuild
  /\ reading = NoReading

\* ------------------------------------------------------------------------
\* Boolean._smoothMin and Boolean._smoothMax on rationals
\* ------------------------------------------------------------------------
RMin2(a, b) == IF RLeq(a, b) THEN a ELSE b

RMax2(a, b) == IF RLeq(a, b) THEN b ELSE a

\* Mutant: the blend weight without the clamp at 0.
BlendWeightUnclamped(k, res, value) == RDiv(RSub(k, RAbs(RSub(res, value))), k)

\* const h = Math.max(k - Math.abs(res - values[i]), 0) / k
BlendWeight(k, res, value) ==
  RDiv(RMax2(RSub(k, RAbs(RSub(res, value))), Int2Rat(0)), k)

\* the loop of _smoothMin from values[i] on, res being the value so far
RECURSIVE SmoothMinFrom(_, _, _, _)
SmoothMinFrom(values, k, i, res) ==
  IF i > Len(values) THEN res
  ELSE LET h == BlendWeight(k, res, values[i])
       IN SmoothMinFrom(values, k, i + 1,
            RSub(RMin2(res, values[i]), RMul(RMul(RMul(h, h), k), Rat(1, 4))))

RECURSIVE SmoothMaxFrom(_, _, _, _)
SmoothMaxFrom(values, k, i, res) ==
  IF i > Len(values) THEN res
  ELSE LET h == BlendWeight(k, res, values[i])
       IN SmoothMaxFrom(values, k, i + 1,
            RAdd(RMax2(res, values[i]), RMul(RMul(RMul(h, h), k), Rat(1, 4))))

Boolean_smoothMin(values, k) ==
  IF Len(values) = 1 THEN values[1] ELSE SmoothMinFrom(values, k, 2, values[1])

Boolean_smoothMax(values, k) ==
  IF Len(values) = 1 THEN values[1] ELSE SmoothMaxFrom(values, k, 2, values[1])

\* ------------------------------------------------------------------------
\* FeatureTree.  The id `feature_${n}` is the number n; null is Absent.  The
\* Field a feature results in is represented by its radius.
\* ------------------------------------------------------------------------
\* new FeatureTree(), before any call
FeatureTree_new ==
  [features |-> <<>>, currentResult |-> Absent, last |-> [op |-> "none", id |-> 0]]

\* the operations of the script, called as operation(...args, parameters):
\*   sphere = (p) => Primitives.sphere(origin, p.radius)
\*   offset = (field, p) => Modify.offset(field, p.distance)
\* offset called without its field reads `distance` of undefined
Operate(operation, args, parameters) ==
  IF operation = "sphere"
  THEN IF parameters["radius"] <= 0
       THEN [threw |-> TRUE, message |-> "Sphere radius must be positive", value |-> 0]
       ELSE [threw |-> FALSE, message |-> "", value |-> parameters["radius"]]
  ELSE IF Len(args) = 0
       THEN [threw |-> TRUE,
             message |-> "Cannot read properties of undefined (reading 'distance')",
             value |-> 0]
       ELSE [threw |-> FALSE, message |-> "", value |-> args[1] + parameters["distance"]]

\* this.features.find(f => f.id === id): the index of the first match, 0 if none
FindFeature(features, id) ==
  IF \E j \in 1..Len(features) : features[j].id = id
  THEN CHOOSE j \in 1..Len(features) :
         features[j].id = id /\ \A h \in 1..(j - 1) : features[h].id # id
  ELSE 0

\* feature.inputs.map(...).filter(x => x !== null): the results of the input
\* features that are found and have one
FeatureArgs(features, inputs) ==
  LET found == [n \in 1..Len(inputs) |->
                  IF FindFeature(features, inputs[n]) = 0 THEN Absent
                  ELSE features[FindFeature(features, inputs[n])].result]
      present == SelectSeq(found, LAMBDA r : ~IsAbsent(r))
  IN [n \in 1..Len(present) |-> present[n][1]]

\* Mutant: the catch block records the message and keeps the old result.
CaughtKeepingResult(features, i, message) ==
  [features EXCEPT ![i].error = Some(message)]

\* catch (err) { feature.result = null; feature.error = err.message }
Caught(features, i, message) ==
  [features EXCEPT ![i].result = Absent, ![i].error = Some(message)]

\* the loop of _rebuild from feature i on, with `result` so far
RECURSIVE FeatureTree_rebuildFrom(_, _, _)
FeatureTree_rebuildFrom(features, i, result) ==
  IF i > Len(features) THEN [features |-> features, currentResult |-> result]
  ELSE IF features[i].suppressed
  THEN FeatureTree_rebuildFrom([features EXCEPT ![i].result = Absent], i + 1, result)
  ELSE LET out == Operate(features[i].operation,
                          FeatureArgs(features, features[i].inputs),
                          features[i].parameters)
       IN IF out.threw
          THEN FeatureTree_rebuildFrom(Caught(features, i, out.message), i + 1, result)
          ELSE FeatureTree_rebuildFrom(
                 [features EXCEPT ![i].result = Some(out.value), ![i].error = Absent],
                 i + 1, Some(out.value))

\* _rebuild()
FeatureTree_rebuild(features) == FeatureTree_rebuildFrom(features, 1, Absent)

\* addFeature(name, operation, inputs, parameters)
FeatureTree_addFeature(t, name, operation, inputs, parameters) ==
  LET feature == [id |-> Len(t.features), name |-> name, operation |-> operation,
                  inputs |-> inputs, parameters |-> parameters, suppressed |-> FALSE,
                  result |-> Absent, error |-> Absent]
  IN FeatureTree_rebuild(Append(t.features, feature))

\* suppress(featureId, suppressed)
FeatureTree_suppress(t, featureId, suppressed) ==
  LET i == FindFeature(t.features, featureId)
  IN IF i = 0 THEN [features |-> t.features, currentResult |-> t.currentResult]
     ELSE FeatureTree_rebuild([t.features EXCEPT ![i].suppressed = suppressed])

\* editFeature(featureId, newParameters): Object.assign(feature.parameters, newParameters)
FeatureTree_editFeature(t, featureId, newParameters) ==
  LET i == FindFeature(t.features, featureId)
  IN IF i = 0 THEN [features |-> t.features, currentResult |-> t.currentResult]
     ELSE FeatureTree_rebuild([t.features EXCEPT ![i].parameters = newParameters @@ @])

\* deleteFeature(featureId): this.features.splice(index, 1)
FeatureTree_deleteFeature(t, featureId) ==
  LET i == FindFeature(t.features, featureId)
  IN IF i = 0 THEN [features |-> t.features, currentResult |-> t.currentResult]
     ELSE FeatureTree_rebuild(SubSeq(t.features, 1, i - 1)
                              \o SubSeq(t.features, i + 1, Len(t.features)))

\* getModel()
FeatureTree_getModel(t) == t.currentResult

LateIdle == blend = Absent /\ extrusion = Absent /\ tree = FeatureTree_new

\* ------------------------------------------------------------------------
\* Specification Spec: one marchingCubes call on each field / options pair
\* ------------------------------------------------------------------------
MesherFields == {Implicit(fn, Some(RBox(0, 6))) : fn \in {"sphere", "plane", "saddle", "zero"}}

\* maxMemoryMB budgets: absent, 0, and 32 and 100 bytes written in MB
MesherBudgets == {Absent, Some(Int2Rat(0)), Some(Rat(32, 1024 * 1024)), Some(Rat(100, 1024 * 1024))}

MesherOptions ==
  [resolution : {Some(Int2Rat(r)) : r \in 1..MaxRes},
   bounds : {Absent, Some(RBox(1, 5))},
   maxMemoryMB : MesherBudgets]

CubeIdle == cubeValues = [c \in 0..7 |-> Int2Rat(0)] /\ cubeOut = Absent

NoCall == [op |-> "none", args |-> <<>>, threw |-> FALSE]

FieldIdle == solid = Absent /\ call = NoCall /\ opCount = 0 /\ probe = Absent

ExportIdle == stl = Absent /\ obj = Absent

ObjectsIdle == objects = <<>> /\ applied = Absent

Init == MesherIdle /\ CubeIdle /\ FieldIdle /\ ExportIdle /\ ObjectsIdle /\ ParamIdle /\ LateIdle

MarchingCubes == \E f \in MesherFields, opts \in MesherOptions : Call(f, opts)

Next ==
  \/ MarchingCubes
  \/ ToSTL
  \/ ToOBJ
  \/ SampleStep
  \/ StartTriangulating
  \/ CubeStep
  \/ Finalize
  \/ Return

Spec == Init /\ [][Next]_vars

\* ------------------------------------------------------------------------
\* Specification SpecCube: Mesher._marchCube on every cube of samples in CubeSamples
\* ------------------------------------------------------------------------
CubeSamples == {Int2Rat(-1), Int2Rat(0), Int2Rat(1)}

CubePos == RVec(0, 0, 0)

CubeStepSize == RVec(1, 1, 1)

InitCube ==
  /\ MesherIdle
  /\ cubeValues \in [0..7 -> CubeSamples]
  /\ cubeOut = Absent
  /\ FieldIdle
  /\ ExportIdle
  /\ ObjectsIdle
  /\ ParamIdle /\ LateIdle

MarchOneCube ==
  /\ IsAbsent(cubeOut)
  /\ cubeOut' = Some(MarchCube(cubeValues, CubePos, CubeStepSize, <<>>, <<>>, <<>>, NoField))
  /\ UNCHANGED cubeValues
  /\ UNCHANGED <<mesherVars, fieldVars, exportVars, objectVars, paramVars, lateVars>>

NextCube == MarchOneCube

SpecCube == InitCube /\ [][NextCube]_vars

\* ------------------------------------------------------------------------
\* Specification SpecField: a script that builds a Field, one constructor call
\* after another, and probes it with sample(p) and _evaluate(p)
\* ------------------------------------------------------------------------
Origin == Vec(0, 0, 0)

Centers == {Origin, Vec(2, 0, 0)}

Radii == {0, 1}

BoxSizes == {Vec(2, 2, 2), Vec(6, 2, 2), Vec(0, 2, 2)}

SegmentEnds == {Origin, Vec(2, 0, 0)}

LatticeBounds == {Bounds_create(Vec(-2, -2, -2), Vec(2, 2, 2)),
                  Bounds_create(Vec(-40, -40, -40), Vec(40, 40, 40))}

\* the second operand of the two-field combinators
Operands == {Primitives_sphere(Origin, 1).field[1], Primitives_box(Vec(2, 0, 0), Vec(2, 2, 2)).field[1]}

Grid == {Vec(x, y, z) : x \in {-2, 0, 3}, y \in {0, 2}, z \in {0, 3}}

FarPoint == Vec(1000, 1000, 1000)

\* where a field is probed: the grid and, for a bare lattice, the far point
ProbePoints(f) == IF f.type \in LatticeTypes THEN Grid \cup {FarPoint} ELSE Grid

\* one constructor call and what it leaves behind
Construct(op, args, outcome) ==
  /\ opCount < MaxOps
  /\ opCount' = opCount + 1
  /\ call' = [op |-> op, args |-> args, threw |-> outcome.threw]
  /\ solid' = IF outcome.threw THEN solid ELSE outcome.field
  /\ probe' = Absent
  /\ UNCHANGED <<mesherVars, cubeVars, exportVars, objectVars, paramVars, lateVars>>

SphereCall ==
  /\ IsAbsent(solid)
  /\ \E c \in Centers, r \in Radii :
       Construct("Primitives.sphere", [center |-> c, radius |-> r], Primitives_sphere(c, r))

BoxCall ==
  /\ IsAbsent(solid)
  /\ \E c \in Centers, size \in BoxSizes :
       Construct("Primitives.box", [center |-> c, size |-> size], Primitives_box(c, size))

CylinderCall ==
  /\ IsAbsent(solid)
  /\ \E e \in SegmentEnds, r \in Radii :
       Construct("Primitives.cylinder", [start |-> Origin, end |-> e, radius |-> r],
                 Primitives_cylinder(Origin, e, r))

ConeCall ==
  /\ IsAbsent(solid)
  /\ \E e \in SegmentEnds, r \in Radii :
       Construct("Primitives.cone", [start |-> Origin, end |-> e, radius |-> r],
                 Primitives_cone(Origin, e, r))

CapsuleCall ==
  /\ IsAbsent(solid)
  /\ \E e \in SegmentEnds, r \in Radii :
       Construct("Primitives.capsule", [start |-> Origin, end |-> e, radius |-> r],
                 Primitives_capsule(Origin, e, r))

TorusCall ==
  /\ IsAbsent(solid)
  /\ \E major \in {0, 2}, minor \in Radii :
       Construct("Primitives.torus", [majorRadius |-> major, minorRadius |-> minor],
                 Primitives_torus(Origin, Vec(0, 0, 1), major, minor))

PlaneCall ==
  /\ IsAbsent(solid)
  /\ Construct("Primitives.plane", <<>>, Primitives_plane(Origin, Vec(0, 0, 1)))

ImplicitCall ==
  /\ IsAbsent(solid)
  /\ \E fn \in {"sphere", "undefined"},
        b \in {Absent, Some(Bounds_create(Vec(-3, -3, -3), Vec(3, 3, 3)))} :
       Construct("Primitives.implicit", [fn |-> fn, bounds |-> b], Primitives_implicit(fn, b))

LatticeCall ==
  /\ IsAbsent(solid)
  /\ \E type \in LatticeTypes, b \in LatticeBounds, thickness \in {0, 1} :
       Construct("Lattice", [type |-> type, cellSize |-> 4, thickness |-> thickness],
                 Lattice(type, b, 4, thickness))

UnionCall ==
  /\ ~IsAbsent(solid)
  /\ \E fields \in {<<>>, <<solid[1]>>} \cup {<<solid[1], g>> : g \in Operands}
                   \cup {<<Primitives_sphere(Origin, 1).field[1], solid[1],
                           Primitives_box(Vec(2, 0, 0), Vec(2, 2, 2)).field[1]>>} :
       Construct("Boolean.union", [count |-> Len(fields)], Boolean_union(fields))

IntersectionCall ==
  /\ ~IsAbsent(solid)
  /\ \E fields \in {<<>>, <<solid[1]>>} \cup {<<solid[1], g>> : g \in Operands}
                   \cup {<<Primitives_sphere(Origin, 1).field[1], solid[1],
                           Primitives_box(Vec(2, 0, 0), Vec(2, 2, 2)).field[1]>>} :
       Construct("Boolean.intersection", [count |-> Len(fields)], Boolean_intersection(fields))

DifferenceCall ==
  /\ ~IsAbsent(solid)
  /\ \E g \in Operands : Construct("Boolean.difference", <<>>, Boolean_difference(solid[1], g))

XorCall ==
  /\ ~IsAbsent(solid)
  /\ \E g \in Operands : Construct("Boolean.xor", <<>>, Boolean_xor(solid[1], g))

TranslateCall ==
  /\ ~IsAbsent(solid)
  /\ Construct("Transform.translate", <<>>, Transform_translate(solid[1], Vec(1, 0, 0)))

ScaleCall ==
  /\ ~IsAbsent(solid)
  /\ \E n \in {0, 2} :
       Construct("Transform.scale", [scale |-> n], Transform_scale(solid[1], Vec(n, n, n), Origin))

MirrorCall ==
  /\ ~IsAbsent(solid)
  /\ \E normal \in {Vec(1, 0, 0), Vec(0, 0, 1)} :
       Construct("Transform.mirror", <<>>, Transform_mirror(solid[1], Origin, normal))

OffsetCall ==
  /\ ~IsAbsent(solid)
  /\ \E distance \in {-1, 1} :
       Construct("Modify.offset", [distance |-> distance], Modify_offset(solid[1], distance))

ShellCall ==
  /\ ~IsAbsent(solid)
  /\ \E thickness \in {0, 1} :
       Construct("Modify.shell", [thickness |-> thickness], Modify_shell(solid[1], thickness))

FilletCall ==
  /\ ~IsAbsent(solid)
  /\ \E radius \in Radii :
       Construct("Modify.fillet", [radius |-> radius], Modify_fillet(solid[1], radius))

ChamferCall ==
  /\ ~IsAbsent(solid)
  /\ \E distance \in {0, 2} :
       Construct("Modify.chamfer", [distance |-> distance], Modify_chamfer(solid[1], distance))

\* solid.sample(p); inside the stored bounds the call goes on to _evaluate
SampleCall ==
  /\ ~IsAbsent(solid)
  /\ IsAbsent(probe)
  /\ \E p \in ProbePoints(solid[1]) :
       /\ Evaluable(solid[1]) \/ OutsideStoredBounds(solid[1], p)
       /\ probe' = Some([op |-> "sample", point |-> p, result |-> Field_sample(solid[1], p)])
  /\ UNCHANGED <<solid, call, opCount, mesherVars, cubeVars, exportVars, objectVars, paramVars, lateVars>>

\* solid._evaluate(p)
EvaluateCall ==
  /\ ~IsAbsent(solid)
  /\ IsAbsent(probe)
  /\ Evaluable(solid[1])
  /\ \E p \in ProbePoints(solid[1]) :
       probe' = Some([op |-> "_evaluate", point |-> p, result |-> Field_evaluate(solid[1], p)])
  /\ UNCHANGED <<solid, call, opCount, mesherVars, cubeVars, exportVars, objectVars, paramVars, lateVars>>

NextField ==
  \/ SphereCall
  \/ BoxCall
  \/ CylinderCall
  \/ ConeCall
  \/ CapsuleCall
  \/ TorusCall
  \/ PlaneCall
  \/ ImplicitCall
  \/ LatticeCall
  \/ UnionCall
  \/ IntersectionCall
  \/ DifferenceCall
  \/ XorCall
  \/ TranslateCall
  \/ ScaleCall
  \/ MirrorCall
  \/ OffsetCall
  \/ ShellCall
  \/ FilletCall
  \/ ChamferCall
  \/ SampleCall
  \/ EvaluateCall

SpecField == Init /\ [][NextField]_vars

\* ------------------------------------------------------------------------
\* Specification SpecProgress: the onProgress reports of one marchingCubes call
\* at resolutions up to MaxProgressRes.  The loop iterations between two
\* reports are taken in one step; the grid and the triangles are not followed.
\* ------------------------------------------------------------------------
\* the first count after from at which the loop reports or ends
NextReport(from, every, total) == Min2((from \div every + 1) * every, total)

CountingCall(opts) ==
  /\ UNCHANGED notMesherVars
  /\ pc = "idle"
  /\ options' = opts
  /\ resolution' = OrDefault(opts.resolution, Int2Rat(DefaultResolution)).n
  /\ maxMemoryMB' = OrDefault(opts.maxMemoryMB, Int2Rat(DefaultMaxMemoryMB))
  /\ IF RGt(EstimatedMemory(resolution'), maxMemoryMB')
     THEN /\ pc' = "thrown"
          /\ maxResolution' = Some(MaxResolution(maxMemoryMB'))
          /\ UNCHANGED <<sampleCount, progress>>
     ELSE /\ pc' = "sampling"
          /\ UNCHANGED maxResolution
          /\ progress' = <<Int2Rat(0), Int2Rat(10)>>
          /\ sampleCount' = 0
  /\ UNCHANGED <<field, bounds, grid, sampledAt, cubeCount, vertices, normals, indices, mesh>>

\* the iterations of the sampling loops up to the next report or the end
SampleRun ==
  /\ UNCHANGED notMesherVars
  /\ UNCHANGED maxResolution
  /\ pc = "sampling"
  /\ sampleCount < (resolution + 1) ^ 3
  /\ LET totalSamples == (resolution + 1) ^ 3
     IN /\ sampleCount' = NextReport(sampleCount, SampleProgressEvery, totalSamples)
        /\ progress' =
             IF sampleCount' % SampleProgressEvery = 0
             THEN Append(progress, SamplePercent(sampleCount', totalSamples))
             ELSE progress
  /\ UNCHANGED <<pc, field, options, resolution, maxMemoryMB, bounds, grid, sampledAt,
                 cubeCount, vertices, normals, indices, mesh>>

\* the iterations of the cube loops up to the next report or the end
CubeRun ==
  /\ UNCHANGED notMesherVars
  /\ UNCHANGED maxResolution
  /\ pc = "triangulating"
  /\ cubeCount < resolution ^ 3
  /\ LET totalCubes == resolution ^ 3
     IN /\ cubeCount' = NextReport(cubeCount, CubeProgressEvery, totalCubes)
        /\ progress' =
             IF cubeCount' % CubeProgressEvery = 0
             THEN Append(progress, CubePercent(cubeCount', totalCubes))
             ELSE progress
  /\ UNCHANGED <<pc, field, options, resolution, maxMemoryMB, bounds, grid, sampledAt,
                 sampleCount, vertices, normals, indices, mesh>>

ProgressOptions ==
  [resolution : {Absent} \cup {Some(Int2Rat(r)) : r \in 1..MaxProgressRes},
   bounds : {Absent},
   maxMemoryMB : {Absent, Some(Rat(1, 8))}]

ProgressCall == \E opts \in ProgressOptions : CountingCall(opts)

NextProgress ==
  \/ ProgressCall
  \/ SampleRun
  \/ StartTriangulating
  \/ CubeRun
  \/ Finalize
  \/ Return

SpecProgress == Init /\ [][NextProgress]_vars

\* ------------------------------------------------------------------------
\* Specification SpecSample: sample and sampleBatch calls, with their arguments
\* as the caller wrote them, on a Field that was built before
\* ------------------------------------------------------------------------
\* an argument of a call: a point object, an options object, a number, or undefined
PointArg(p) == [kind |-> "point", v |-> p]

OptionsArg(o) == [kind |-> "options", v |-> o]

Undefined == [kind |-> "undefined", v |-> <<>>]

\* the options object {}
EmptyOptions == [computeNormal |-> Absent, normalEpsilon |-> Absent, includeMaterial |-> Absent]

\* argument number n of a call, undefined when the call has fewer
Arg(args, n) == IF n <= Len(args) THEN args[n] ELSE Undefined

\* Math.abs(d) < 0.1
AbsBelowTenth(d) == NumLt(d, Num(0, 0, 1, 10)) /\ NumLt(Num(0, 0, -1, 10), d)

\* _gradient(p, epsilon = 0.001): the normalized central difference at p with
\* step epsilon, kept symbolic
Field_gradient(f, p, epsilon) ==
  [at |-> p, epsilon |-> IF IsAbsent(epsilon) THEN Rat(1, 1000) ELSE epsilon[1]]

\* Field.sample(x, y, z, options = {}) called with the arguments args on a field
\* whose `material` property is material (absent unless the caller set it)
Field_sampleArgs(f, material, args) ==
  LET x == Arg(args, 1)
      o == Arg(args, 4)
      opts == IF o.kind = "undefined" THEN EmptyOptions ELSE o.v
      p == x.v
      base == Field_sample(f, p)
  IN IF ~base.evaluated
     THEN [distance |-> base.distance, outsideBounds |-> TRUE, normal |-> Absent,
           material |-> Absent]
     ELSE [distance |-> base.distance, outsideBounds |-> FALSE,
           normal |-> IF opts.computeNormal # Some(FALSE) /\ AbsBelowTenth(base.distance)
                      THEN Some(Field_gradient(f, p, opts.normalEpsilon))
                      ELSE Absent,
           material |-> IF opts.includeMaterial = Some(TRUE) /\ ~IsAbsent(material)
                        THEN material ELSE Absent]

\* Field.sampleBatch(points, options = {})
Field_sampleBatch(f, material, points, opts) ==
  [i \in 1..Len(points) |-> Field_sampleArgs(f, material, <<PointArg(points[i]), OptionsArg(opts)>>)]

SampleFields ==
  {Primitives_sphere(Vec(2, 0, 0), 1).field[1],
   Primitives_box(Origin, Vec(6, 2, 2)).field[1],
   Primitives_box(Origin, Vec(10, 10, 10)).field[1],
   Boolean_union(<<Primitives_sphere(Vec(2, 0, 0), 1).field[1],
                   Primitives_box(Origin, Vec(2, 2, 2)).field[1]>>).field[1],
   Transform_translate(Primitives_sphere(Origin, 1).field[1], Vec(1, 0, 0)).field[1]}

SamplePoints ==
  {Vec(3, 0, 0), Vec(0, 0, 0), Vec(-2, 0, 0), Vec(1, 0, 0), Vec(5, 0, 0), Vec(10, 0, 0)}

SampleOptions ==
  {EmptyOptions,
   [EmptyOptions EXCEPT !.computeNormal = Some(FALSE)],
   [EmptyOptions EXCEPT !.computeNormal = Some(TRUE), !.normalEpsilon = Some(Rat(1, 100))],
   [EmptyOptions EXCEPT !.includeMaterial = Some(TRUE)]}

Materials == {Absent, Some("steel")}

InitSample ==
  /\ MesherIdle /\ CubeIdle /\ ExportIdle /\ ObjectsIdle /\ ParamIdle /\ LateIdle
  /\ solid \in {Some(f) : f \in SampleFields}
  /\ call = NoCall
  /\ opCount = 0
  /\ probe = Absent

Probed(op, material, opts, points, results) ==
  /\ probe' = Some([op |-> op, material |-> material, options |-> opts, points |-> points,
                    results |-> results])
  /\ UNCHANGED <<solid, call, opCount, mesherVars, cubeVars, exportVars, objectVars, paramVars, lateVars>>

\* solid.sample(p)
SamplePoint ==
  /\ IsAbsent(probe)
  /\ \E p \in SamplePoints, material \in Materials :
       Probed("sample(p)", material, EmptyOptions, <<p>>,
              <<Field_sampleArgs(solid[1], material, <<PointArg(p)>>)>>)

\* solid.sample(p, options)
SampleWithOptions ==
  /\ IsAbsent(probe)
  /\ \E p \in SamplePoints, material \in Materials, opts \in SampleOptions :
       Probed("sample(p, options)", material, opts, <<p>>,
              <<Field_sampleArgs(solid[1], material, <<PointArg(p), OptionsArg(opts)>>)>>)

\* solid.sample(p, undefined, undefined, options)
SampleWithFourthArgument ==
  /\ IsAbsent(probe)
  /\ \E p \in SamplePoints, material \in Materials, opts \in SampleOptions :
       Probed("sample(p, undefined, undefined, options)", material, opts, <<p>>,
              <<Field_sampleArgs(solid[1], material,
                                 <<PointArg(p), Undefined, Undefined, OptionsArg(opts)>>)>>)

\* solid.sampleBatch([p, q], options)
SampleBatch ==
  /\ IsAbsent(probe)
  /\ \E p, q \in SamplePoints, material \in Materials, opts \in SampleOptions :
       Probed("sampleBatch(points, options)", material, opts, <<p, q>>,
              Field_sampleBatch(solid[1], material, <<p, q>>, opts))

NextSample ==
  \/ SamplePoint
  \/ SampleWithOptions
  \/ SampleWithFourthArgument
  \/ SampleBatch

SpecSample == InitSample /\ [][NextSample]_vars

\* ------------------------------------------------------------------------
\* Specification SpecObjects: a script that creates Field objects and applies
\* combinators, transforms and modifiers to them.  A Field object is the record
\* of its _evaluate closure (the operation and the references it closes over),
\* its _bounds and its _metadata (type, complexity and the numeric entries).
\* ------------------------------------------------------------------------
MaxObjects == 3

\* `new Field()` with _evaluate, _bounds and _metadata assigned
FieldObject(fn, over, b, type, complexity, entries) ==
  [_evaluate |-> [fn |-> fn, over |-> over], _bounds |-> b,
   _metadata |-> [type |-> type, complexity |-> complexity, entries |-> entries]]

\* { ...entries, name: value }
WithEntry(entries, name, value) == {e \in entries : e[1] # name} \cup {<<name, value>>}

\* what an operation does: it throws, or it returns a reference and leaves the
\* objects `heap`
Thrown(heap) == [threw |-> TRUE, returned |-> 0, heap |-> heap]

Gave(ref, heap) == [threw |-> FALSE, returned |-> ref, heap |-> heap]

\* the operation returns a newly created object
GaveNew(heap, o) == Gave(Len(heap) + 1, Append(heap, o))

\* fields.reduce((sum, f) => sum + f.metadata().complexity, 0)
RECURSIVE SumComplexity(_, _)
SumComplexity(heap, refs) ==
  IF Len(refs) = 0 THEN 0
  ELSE heap[Head(refs)]._metadata.complexity + SumComplexity(heap, Tail(refs))

Deref(heap, refs) == [i \in 1..Len(refs) |-> heap[refs[i]]]

New_sphere(heap, center, radius) ==
  IF radius <= 0 THEN Thrown(heap)
  ELSE GaveNew(heap, FieldObject("sphere", <<>>, Primitives_sphere(center, radius).field[1]._bounds,
                                 <<"sphere">>, 1, {<<"radius", radius>>}))

\* Extrude.linear(sketch, direction, distance), sketch.bounds() being the
\* rectangle sketchMin .. sketchMax: no argument is checked
New_extrudeLinear(heap, sketchMin, sketchMax, distance) ==
  GaveNew(heap, FieldObject("extrude-linear", <<>>,
            Some(Bounds_create(Vec(sketchMin.x, sketchMin.y, 0),
                               Vec(sketchMax.x, sketchMax.y, distance))),
            <<"extrude-linear">>, 3, {<<"distance", distance>>}))

\* Boolean.union / intersection / smoothUnion / smoothIntersection (blendRadius 0
\* stands for no blend radius)
New_nary(heap, op, refs, blendRadius) ==
  IF Len(refs) = 0 THEN Thrown(heap)
  ELSE IF Len(refs) = 1 THEN Gave(refs[1], heap)
  ELSE GaveNew(heap, FieldObject(op, refs,
         ReduceBounds(Deref(heap, refs), op \in {"intersection", "smoothIntersection"}, Absent),
         <<op>>, SumComplexity(heap, refs),
         IF op \in {"smoothUnion", "smoothIntersection"} THEN {<<"blendRadius", blendRadius>>}
         ELSE {}))

New_difference(heap, a, b) ==
  GaveNew(heap, FieldObject("difference", <<a, b>>, Some(Field_bounds(heap[a])), <<"difference">>,
                            heap[a]._metadata.complexity + heap[b]._metadata.complexity, {}))

New_xor(heap, a, b) ==
  GaveNew(heap, FieldObject("xor", <<a, b>>,
                            Some(Bounds_union(Field_bounds(heap[a]), Field_bounds(heap[b]))),
                            <<"xor">>,
                            heap[a]._metadata.complexity + heap[b]._metadata.complexity, {}))

New_translate(heap, a, offset) ==
  LET b == Field_bounds(heap[a])
  IN GaveNew(heap, FieldObject("translate", <<a>>,
               Some(Bounds_create(Vec3_add(b.min, offset), Vec3_add(b.max, offset))),
               <<"translate">> \o heap[a]._metadata.type, heap[a]._metadata.complexity,
               heap[a]._metadata.entries))

New_offset(heap, a, distance) ==
  GaveNew(heap, FieldObject("offset", <<a>>,
            Some(Bounds_expand(Field_bounds(heap[a]), Abs(distance))),
            <<"offset">> \o heap[a]._metadata.type, heap[a]._metadata.complexity,
            WithEntry(heap[a]._metadata.entries, "distance", distance)))

\* result._metadata.type = ...; result._metadata[name] = value
Retyped(out, type, name, value) ==
  [out EXCEPT !.heap[out.returned]._metadata.type = type,
              !.heap[out.returned]._metadata.entries = WithEntry(@, name, value)]

New_shell(heap, a, thickness) ==
  IF thickness <= 0 THEN Thrown(heap)
  ELSE LET inner == New_offset(heap, a, -thickness)
       IN Retyped(New_difference(inner.heap, a, inner.returned),
                  <<"shell">> \o heap[a]._metadata.type, "thickness", thickness)

New_fillet(heap, a, radius) ==
  IF radius <= 0 THEN Thrown(heap)
  ELSE LET inner == New_offset(heap, a, -radius)
       IN Retyped(New_offset(inner.heap, inner.returned, radius),
                  <<"fillet">> \o heap[a]._metadata.type, "radius", radius)

\* one operation of the script and what it leaves behind
Apply(op, refs, out) ==
  /\ Len(objects) < MaxObjects
  /\ objects' = out.heap
  /\ applied' = Some([op |-> op, inputs |-> refs, threw |-> out.threw, returned |-> out.returned,
                      before |-> objects])
  /\ UNCHANGED <<mesherVars, cubeVars, fieldVars, exportVars, paramVars, lateVars>>

Refs == 1..Len(objects)

NewSphere ==
  \E c \in {Vec(0, 0, 0), Vec(4, 0, 0)}, r \in {0, 1} :
    Apply("Primitives.sphere", <<>>, New_sphere(objects, c, r))

\* Extrude.linear of a sketch of the rectangle (-1,-1) .. (1,1)
NewExtrusion ==
  \E distance \in {-2, 2} :
    Apply("Extrude.linear", <<>>,
          New_extrudeLinear(objects, [x |-> -1, y |-> -1], [x |-> 1, y |-> 1], distance))

NaryOps == {"union", "intersection", "smoothUnion", "smoothIntersection"}

ApplyNary ==
  \E op \in NaryOps, refs \in {<<>>} \cup {<<a>> : a \in Refs} \cup {<<a, b>> : a, b \in Refs} :
    Apply(op, refs, New_nary(objects, op, refs, 1))

ApplyDifference == \E a, b \in Refs : Apply("difference", <<a, b>>, New_difference(objects, a, b))

ApplyXor == \E a, b \in Refs : Apply("xor", <<a, b>>, New_xor(objects, a, b))

ApplyTranslate == \E a \in Refs : Apply("translate", <<a>>, New_translate(objects, a, Vec(1, 0, 0)))

ApplyOffset == \E a \in Refs, d \in {-1, 1} : Apply("offset", <<a>>, New_offset(objects, a, d))

ApplyShell == \E a \in Refs, t \in {0, 1} : Apply("shell", <<a>>, New_shell(objects, a, t))

ApplyFillet == \E a \in Refs, r \in {0, 1} : Apply("fillet", <<a>>, New_fillet(objects, a, r))

NextObjects ==
  \/ NewSphere
  \/ NewExtrusion
  \/ ApplyNary
  \/ ApplyDifference
  \/ ApplyXor
  \/ ApplyTranslate
  \/ ApplyOffset
  \/ ApplyShell
  \/ ApplyFillet

SpecObjects == Init /\ [][NextObjects]_vars

\* ------------------------------------------------------------------------
\* Specification SpecParam: assignments to the parameters, reads of their
\* values, and reads of `model.current`
\* ------------------------------------------------------------------------
\* the largest value the script assigns
MaxValue == 4

TheWorld == World(params, cachedField, needsRebuild)

Leaves(w, r) ==
  /\ params' = w.params
  /\ cachedField' = w.cachedField
  /\ needsRebuild' = w.needsRebuild
  /\ reading' = r
  /\ UNCHANGED <<mesherVars, cubeVars, fieldVars, exportVars, objectVars, lateVars>>

\* p.value = v
SetValue ==
  \E name \in DOMAIN params, v \in -1..MaxValue :
    Leaves(Parameter_setValue(TheWorld, name, v),
           [NoReading EXCEPT !.op = "set", !.of = name, !.value = JSNum(v)])

\* length = Parametric.param('length', v, 0, DiameterMax)
NewParameter ==
  /\ "length" \notin DOMAIN params
  /\ \E v \in -1..MaxValue :
       Leaves(Parametric_param(TheWorld, "length", v, 0, DiameterMax),
              [NoReading EXCEPT !.op = "param", !.of = "length", !.value = JSNum(v)])

\* p.value
ReadValue ==
  \E name \in DOMAIN params :
    Leaves(TheWorld, [NoReading EXCEPT !.op = "value", !.of = name,
                                       !.value = Parameter_value(params, name)])

\* model.current
ReadCurrent ==
  Leaves(Current(TheWorld),
         [NoReading EXCEPT !.op = "current", !.field = Current(TheWorld).cachedField,
                           !.built = CurrentRebuilds(TheWorld)])

\* model.rebuild()
CallRebuild ==
  Leaves(Rebuild(TheWorld),
         [NoReading EXCEPT !.op = "rebuild", !.field = Rebuild(TheWorld).cachedField,
                           !.built = TRUE])

NextParam ==
  \/ NewParameter
  \/ SetValue
  \/ ReadValue
  \/ ReadCurrent
  \/ CallRebuild

SpecParam == Init /\ [][NextParam]_vars

\* ------------------------------------------------------------------------
\* Specification SpecBlend: _smoothMin and _smoothMax on one or two distances
\* (halves from -MaxDistance to MaxDistance) with a positive blend radius
\* ------------------------------------------------------------------------
MaxDistance == 3

BlendValues == {Rat(n, 2) : n \in (-2 * MaxDistance)..(2 * MaxDistance)}

BlendRadii == {Rat(1, 4), Int2Rat(1), Int2Rat(2), Rat(1, 1000)}

BlendInputs == {<<a>> : a \in BlendValues} \cup {<<a, b>> : a, b \in BlendValues}

Blended(op, values, k, result) ==
  /\ blend' = Some([op |-> op, values |-> values, k |-> k, result |-> result])
  /\ UNCHANGED <<mesherVars, cubeVars, fieldVars, exportVars, objectVars, paramVars,
                 extrusion, tree>>

SmoothMinCall ==
  /\ IsAbsent(blend)
  /\ \E values \in BlendInputs, k \in BlendRadii :
       Blended("_smoothMin", values, k, Boolean_smoothMin(values, k))

SmoothMaxCall ==
  /\ IsAbsent(blend)
  /\ \E values \in BlendInputs, k \in BlendRadii :
       Blended("_smoothMax", values, k, Boolean_smoothMax(values, k))

NextBlend == SmoothMinCall \/ SmoothMaxCall

SpecBlend == Init /\ [][NextBlend]_vars

\* ------------------------------------------------------------------------
\* Specification SpecExtrude: a closed sketch is extruded along +z and the
\* field is evaluated, or sampled, at one point.
\* ------------------------------------------------------------------------
\* new Sketch().circle({x: 0, y: 0}, r).close(), and a rectangle around the origin
Sketches ==
  {Sketch_close(Sketch_circle(Sketch_new, Vec2(0, 0), r)) : r \in 1..2}
  \cup {Sketch_rectangle(Sketch_new, Vec2(-1, -1), 2, 2)}

ExtrudeDirections == {Vec(0, 0, 1), Vec(0, 0, 2)}

\* points whose distance from the origin in the xy plane is an integer
ExtrudePoints ==
  {Vec(q[1], q[2], z) :
     q \in {<<0, 0>>, <<1, 0>>, <<2, 0>>, <<3, 0>>, <<-1, 0>>, <<0, 1>>, <<0, -2>>, <<3, 4>>},
     z \in -1..(MaxDistance + 1)}

Extruded(op, s, direction, distance, p, result) ==
  /\ IsAbsent(extrusion)
  /\ extrusion' = Some([op |-> op, sketch |-> s, direction |-> direction,
                        distance |-> distance, point |-> p, result |-> result])
  /\ UNCHANGED <<mesherVars, cubeVars, fieldVars, exportVars, objectVars, paramVars, blend, tree>>

\* Extrude.linear(sketch, direction, distance)._evaluate(p)
EvaluateExtrusion ==
  \E s \in Sketches, direction \in ExtrudeDirections, distance \in 1..MaxDistance,
     p \in ExtrudePoints :
     Extruded("_evaluate", s, direction, distance, p,
              [distance |-> Field_evaluate(Extrude_linear(s, direction, distance), p),
               outsideBounds |-> FALSE])

\* Extrude.linear(sketch, direction, distance).sample(p)
SampleExtrusion ==
  \E s \in Sketches, direction \in ExtrudeDirections, distance \in 1..MaxDistance,
     p \in ExtrudePoints :
     LET r == Field_sample(Extrude_linear(s, direction, distance), p)
     IN Extruded("sample", s, direction, distance, p,
                 [distance |-> r.distance, outsideBounds |-> ~r.evaluated])

NextExtrude == EvaluateExtrusion \/ SampleExtrusion

SpecExtrude == Init /\ [][NextExtrude]_vars

\* ------------------------------------------------------------------------
\* Specification SpecTree: a script that adds, suppresses, edits and deletes
\* the features of one FeatureTree
\* ------------------------------------------------------------------------
\* the most features the script keeps in the tree
MaxFeatures == 2

\* the ids the script names: those a tree of MaxFeatures features can hold
FeatureIds == 0..(MaxFeatures - 1)

\* the ids of the features in the tree
PresentIds == {tree.features[i].id : i \in 1..Len(tree.features)}

FeatureRadii == {0, 1}

\* the largest radius of a result the script lets the tree reach
MaxFieldRadius == 3

Called(op, id, out) ==
  /\ \A i \in 1..Len(out.features) :
       IF IsAbsent(out.features[i].result) THEN TRUE
       ELSE out.features[i].result[1] <= MaxFieldRadius
  /\ tree' = [features |-> out.features, currentResult |-> out.currentResult,
              last |-> [op |-> op, id |-> id]]
  /\ UNCHANGED <<mesherVars, cubeVars, fieldVars, exportVars, objectVars, paramVars, blend,
                 extrusion>>

\* tree.addFeature('base', sphere, [], {radius}) and
\* tree.addFeature('grow', offset, ['feature_n'], {distance: 1}) on a feature
\* of the tree
AddFeature ==
  /\ Len(tree.features) < MaxFeatures
  /\ \/ \E radius \in FeatureRadii :
          Called("addFeature", Len(tree.features),
                 FeatureTree_addFeature(tree, "base", "sphere", <<>>, "radius" :> radius))
     \/ \E n \in PresentIds :
          Called("addFeature", Len(tree.features),
                 FeatureTree_addFeature(tree, "grow", "offset", <<n>>, "distance" :> 1))

\* tree.suppress('feature_n', flag)
Suppress ==
  \E n \in FeatureIds, flag \in BOOLEAN :
     Called("suppress", n, FeatureTree_suppress(tree, n, flag))

\* tree.editFeature('feature_n', {radius})
EditFeature ==
  \E n \in FeatureIds, radius \in FeatureRadii :
     Called("editFeature", n, FeatureTree_editFeature(tree, n, "radius" :> radius))

\* tree.deleteFeature('feature_n')
DeleteFeature ==
  \E n \in FeatureIds : Called("deleteFeature", n, FeatureTree_deleteFeature(tree, n))

NextTree ==
  \/ AddFeature
  \/ Suppress
  \/ EditFeature
  \/ DeleteFeature

SpecTree == Init /\ [][NextTree]_vars

\* ------------------------------------------------------------------------
\* Vector helpers for the statements below
\* ------------------------------------------------------------------------
VSub(a, b) == [x |-> RSub(a.x, b.x), y |-> RSub(a.y, b.y), z |-> RSub(a.z, b.z)]

VCross(a, b) ==
  [x |-> RSub(RMul(a.y, b.z), RMul(a.z, b.y)),
   y |-> RSub(RMul(a.z, b.x), RMul(a.x, b.z)),
   z |-> RSub(RMul(a.x, b.y), RMul(a.y, b.x))]

VDot(a, b) == RAdd(RAdd(RMul(a.x, b.x), RMul(a.y, b.y)), RMul(a.z, b.z))

RECURSIVE RSumSeq(_)
RSumSeq(s) == IF Len(s) = 0 THEN Int2Rat(0) ELSE RAdd(s[1], RSumSeq(Tail(s)))

\* vertex v (0..2) of triangle t (0-based) of a flattened vertex array
TriVertex(verts, t, v) ==
  [x |-> verts[9 * t + 3 * v + 1], y |-> verts[9 * t + 3 * v + 2], z |-> verts[9 * t + 3 * v + 3]]

\* ------------------------------------------------------------------------
\* C1
\* ------------------------------------------------------------------------
\* the budget of the call: options.maxMemoryMB, or 512 when it is absent or 0
C1_BudgetMB ==
  IF IsAbsent(options.maxMemoryMB) \/ options.maxMemoryMB[1].n = 0
  THEN Int2Rat(512)
  ELSE options.maxMemoryMB[1]

\* (R + 1)^3 * 4 bytes > maxMemoryMB * 1024 * 1024, in integers
C1_Exceeds ==
  ((options.resolution[1].n + 1) ^ 3) * 4 * C1_BudgetMB.d > C1_BudgetMB.n * 1024 * 1024

C1_NothingDone ==
  /\ DOMAIN grid = {}
  /\ DOMAIN sampledAt = {}
  /\ sampleCount = 0
  /\ progress = <<>>
  /\ vertices = <<>>
  /\ IsAbsent(mesh)

\* C1: a marchingCubes call whose (R+1)^3 * 4 bytes exceed the budget
\* maxMemoryMB * 1024 * 1024 throws, and when it has thrown the voxel grid is not
\* allocated, the field was evaluated at no grid point, onProgress was never
\* invoked and no mesh is returned.
C1_RejectedBeforeAllocation ==
  /\ (pc # "idle" /\ C1_Exceeds) => pc = "thrown"
  /\ pc = "thrown" => C1_NothingDone

C1_Witness == pc = "thrown" /\ resolution = 2 /\ ~IsAbsent(options.maxMemoryMB)

\* ------------------------------------------------------------------------
\* C2
\* ------------------------------------------------------------------------
\* the box C2 says the grid spans: options.bounds, or field.bounds() without it
C2_Box == IF IsAbsent(options.bounds) THEN FieldBounds(field) ELSE options.bounds[1]

C2_PointOf(box, i, j, k) ==
  [x |-> RAdd(box.min.x, RDiv(RMul(Int2Rat(i), RSub(box.max.x, box.min.x)), Int2Rat(resolution))),
   y |-> RAdd(box.min.y, RDiv(RMul(Int2Rat(j), RSub(box.max.y, box.min.y)), Int2Rat(resolution))),
   z |-> RAdd(box.min.z, RDiv(RMul(Int2Rat(k), RSub(box.max.z, box.min.z)), Int2Rat(resolution)))]

\* the grid cells written so far were sampled at the points of `box`
C2_SampledOn(box) ==
  \A i \in 0..resolution, j \in 0..resolution, k \in 0..resolution :
    LET at == sampledAt[i + (resolution + 1) * (j + (resolution + 1) * k)]
    IN ~IsAbsent(at) => at[1] = C2_PointOf(box, i, j, k)

\* C2 (as claimed): with options.bounds supplied the (resolution+1)^3 grid spans
\* exactly that box, grid point (i,j,k) being min + (i,j,k) * (max - min) / resolution,
\* and the returned mesh.bounds is that box; field.bounds() is used only when
\* options.bounds is absent.
C2_GridSpansOptionBounds ==
  /\ pc \in {"sampling", "triangulating", "finalizing", "done"} => C2_SampledOn(C2_Box)
  /\ pc = "done" => mesh[1].bounds = C2_Box

\* ------------------------------------------------------------------------
\* C3
\* ------------------------------------------------------------------------
\* C3: the returned mesh has vertexCount = 3 * triangleCount, one normal per vertex,
\* 3 * triangleCount indices, and indices[n] = n for every n: each triangle has its
\* own three vertices and none is shared.
C3_FreshVerticesPerTriangle ==
  pc = "done" =>
    LET m == mesh[1]
    IN /\ m.vertexCount = RMul(Int2Rat(3), m.triangleCount)
       /\ Len(m.normals) = Len(m.vertices)
       /\ Int2Rat(Len(m.indices)) = RMul(Int2Rat(3), m.triangleCount)
       /\ Int2Rat(Len(m.vertices)) = RMul(Int2Rat(3), m.vertexCount)
       /\ \A n \in 1..Len(m.indices) : m.indices[n] = n - 1

C3_Witness == pc = "done" /\ Len(mesh[1].indices) >= 6

\* ------------------------------------------------------------------------
\* C4
\* ------------------------------------------------------------------------
C4_EdgeFlags == edgeTable[CubeIndex(cubeValues) + 1]

C4_IsZero(v) == IsFinite(v) /\ v.n = 0

\* C4: no vertex of a cube has a NaN or undefined coordinate, whatever the corner
\* samples, zeros included: on every edge whose intersection is computed the two
\* corner magnitudes are not both zero, so t = |v1| / (|v1| + |v2|) is defined and
\* lies in [0, 1]; every computed edge point and every emitted vertex is finite.
C4_NoNaNVertex ==
  ~IsAbsent(cubeOut) =>
    /\ \A i \in 0..11 :
         LET ep == EdgePoints(cubeValues, CubePos, CubeStepSize, C4_EdgeFlags)[i]
             v1 == cubeValues[edgeConnections[i + 1][1]]
             v2 == cubeValues[edgeConnections[i + 1][2]]
             t == InterpT(v1, v2)
         IN ~IsAbsent(ep) =>
              /\ ~(C4_IsZero(v1) /\ C4_IsZero(v2))
              /\ IsFinite(t) /\ RLeq(Int2Rat(0), t) /\ RLeq(t, Int2Rat(1))
              /\ IsFinite(ep[1].x) /\ IsFinite(ep[1].y) /\ IsFinite(ep[1].z)
    /\ \A n \in 1..Len(cubeOut[1].vertices) : IsFinite(cubeOut[1].vertices[n])

\* a cube with two zero corners joined by an edge, and triangles emitted
C4_Witness ==
  /\ ~IsAbsent(cubeOut)
  /\ Len(cubeOut[1].vertices) > 0
  /\ \E i \in 0..11 :
       /\ C4_IsZero(cubeValues[edgeConnections[i + 1][1]])
       /\ C4_IsZero(cubeValues[edgeConnections[i + 1][2]])

\* ------------------------------------------------------------------------
\* C5
\* ------------------------------------------------------------------------
\* Gradient at q of the trilinear interpolant of the corner samples: it points from
\* the inside corners (value <= 0) toward the outside corners.
C5_Gradient(values, q) ==
  LET u == [x |-> RDiv(RSub(q.x, CubePos.x), CubeStepSize.x),
            y |-> RDiv(RSub(q.y, CubePos.y), CubeStepSize.y),
            z |-> RDiv(RSub(q.z, CubePos.z), CubeStepSize.z)]
      W(off, a) == IF off = 1 THEN a ELSE RSub(Int2Rat(1), a)
      S(off) == IF off = 1 THEN Int2Rat(1) ELSE Int2Rat(-1)
      Off(c) == cornerOffsets[c]
  IN [x |-> RSumSeq([c \in 1..8 |->
               RMul(RMul(values[c - 1], S(Off(c)[1])), RMul(W(Off(c)[2], u.y), W(Off(c)[3], u.z)))]),
      y |-> RSumSeq([c \in 1..8 |->
               RMul(RMul(values[c - 1], S(Off(c)[2])), RMul(W(Off(c)[1], u.x), W(Off(c)[3], u.z)))]),
      z |-> RSumSeq([c \in 1..8 |->
               RMul(RMul(values[c - 1], S(Off(c)[3])), RMul(W(Off(c)[1], u.x), W(Off(c)[2], u.y)))])]

C5_NoZeroCorner == \A c \in 0..7 : cubeValues[c].n # 0

\* (v1 - v0) x (v2 - v0) . gradient at the triangle's centroid
C5_Winding(verts, t) ==
  LET v0 == TriVertex(verts, t, 0)
      v1 == TriVertex(verts, t, 1)
      v2 == TriVertex(verts, t, 2)
      third == Rat(1, 3)
      centroid == [x |-> RMul(third, RAdd(RAdd(v0.x, v1.x), v2.x)),
                   y |-> RMul(third, RAdd(RAdd(v0.y, v1.y), v2.y)),
                   z |-> RMul(third, RAdd(RAdd(v0.z, v1.z), v2.z))]
  IN VDot(VCross(VSub(v1, v0), VSub(v2, v0)), C5_Gradient(cubeValues, centroid))

\* C5: for each of the 256 corner configurations, every triangle listed in triTable,
\* its vertices placed on their edges under cornerOffsets, is emitted and is wound
\* counter-clockwise seen from the positive side: (v1 - v0) x (v2 - v0) has a
\* positive dot product with the direction from the inside to the outside corners.
C5_CounterClockwiseFromOutside ==
  (~IsAbsent(cubeOut) /\ C5_NoZeroCorner) =>
    LET verts == cubeOut[1].vertices
    IN /\ Len(verts) = 3 * Len(triTable[CubeIndex(cubeValues) + 1])
       /\ \A t \in 0..((Len(verts) \div 9) - 1) :
            RGt(C5_Winding(verts, t), Int2Rat(0))

\* a configuration of five triangles has been placed
C5_Witness ==
  /\ ~IsAbsent(cubeOut)
  /\ C5_NoZeroCorner
  /\ Len(cubeOut[1].vertices) = 45

\* ------------------------------------------------------------------------
\* C6 (refuted by the model).  Statement: for every Field built from the
\* primitives by combinators, transforms and modifiers, every point p with
\* evaluate(p) <= 0 lies inside the box returned by bounds().  It fails for
\* Transform.mirror, which keeps the box of the field it mirrors.
\* ------------------------------------------------------------------------
C6_ZeroSetInsideBounds ==
  (~IsAbsent(solid) /\ Evaluable(solid[1])) =>
    \A p \in Grid :
      NumLeq(Field_evaluate(solid[1], p), NumInt(0)) =>
        Bounds_contains(Field_bounds(solid[1]), p)

\* ------------------------------------------------------------------------
\* C7 (refuted by the model).  Statement: sample(p) at a point outside the
\* stored bounds returns outsideBounds = true without evaluating the field, and
\* a distance that is not negative.  It fails on a box that is longer along one
\* axis than along another: |p - center| - max(size)/2 is negative beside its
\* short sides.
\* ------------------------------------------------------------------------
C7_OutsideSampleNonNegative ==
  (/\ ~IsAbsent(probe)
   /\ probe[1].op = "sample"
   /\ OutsideStoredBounds(solid[1], probe[1].point)) =>
    /\ "outsideBounds" \in DOMAIN probe[1].result
    /\ probe[1].result.outsideBounds
    /\ ~probe[1].result.evaluated
    /\ NumLeq(NumInt(0), probe[1].result.distance)

\* ------------------------------------------------------------------------
\* C8.  Each of the six lattices, evaluated at a point outside its declared
\* bounds, returns the Euclidean distance from the point to the bounding box
\* (the distance to the nearest point of the box), which is positive.
\* ------------------------------------------------------------------------
C8_NearestInBox(b, p) == Vec3_clamp(p, b.min, b.max)

C8_OutsideLattice ==
  /\ ~IsAbsent(probe)
  /\ probe[1].op = "_evaluate"
  /\ solid[1].type \in LatticeTypes
  /\ ~Bounds_contains(solid[1].arg.bounds, probe[1].point)

C8_LatticeOutsideIsBoxDistance ==
  C8_OutsideLattice =>
    LET p == probe[1].point
        q == C8_NearestInBox(solid[1].arg.bounds, p)
    IN /\ NumEq(probe[1].result, NumSqrt(Vec3_lengthSq(Vec3_sub(p, q))))
       /\ NumLt(NumInt(0), probe[1].result)

\* a gyroid bounded to [-40, 40]^3, evaluated at (1000, 1000, 1000): the distance
\* to the corner (40, 40, 40), sqrt(3 * 960^2)
C8_Witness ==
  /\ C8_OutsideLattice
  /\ solid[1].type = "gyroid"
  /\ solid[1].arg.bounds = Bounds_create(Vec(-40, -40, -40), Vec(40, 40, 40))
  /\ probe[1].point = FarPoint
  /\ probe[1].result = NumSqrt(3 * 960 * 960)

\* ------------------------------------------------------------------------
\* C9 (refuted by the model).  Statement: every constructor called with a
\* non-positive radius, size, thickness or scale factor, or with coincident
\* start and end points (cylinder, cone, capsule), throws.  It fails for
\* Primitives.capsule, which checks its radius only.
\* ------------------------------------------------------------------------
C9_Degenerate ==
  CASE call.op = "Primitives.sphere" -> call.args.radius <= 0
    [] call.op = "Primitives.box" ->
         call.args.size.x <= 0 \/ call.args.size.y <= 0 \/ call.args.size.z <= 0
    [] call.op \in {"Primitives.cylinder", "Primitives.cone", "Primitives.capsule"} ->
         call.args.radius <= 0 \/ call.args.start = call.args.end
    [] call.op = "Primitives.torus" ->
         call.args.majorRadius <= 0 \/ call.args.minorRadius <= 0
    [] call.op = "Transform.scale" -> call.args.scale <= 0
    [] call.op = "Modify.shell" -> call.args.thickness <= 0
    [] call.op = "Modify.fillet" -> call.args.radius <= 0
    [] OTHER -> FALSE

C9_DegenerateThrows == C9_Degenerate => call.threw

\* ------------------------------------------------------------------------
\* C10 (refuted by the model).  Statement: Primitives.implicit called without
\* bounds fails at construction.  The call returns a Field with no bounds, and
\* bounds() of that Field answers the default box.
\* ------------------------------------------------------------------------
C10_ImplicitWithoutBoundsThrows ==
  (call.op = "Primitives.implicit" /\ IsAbsent(call.args.bounds)) => call.threw

\* ------------------------------------------------------------------------
\* C11.  During a successful marchingCubes call every percent handed to
\* onProgress lies in [0, 100], no percent is smaller than the one before it,
\* and the last one before the call returns is exactly 100.
\* ------------------------------------------------------------------------
\* a / b <= c / d for a, c >= 0 and b, d > 0, by whole parts and remainders
RECURSIVE C11_FracLeq(_, _, _, _)
C11_FracLeq(a, b, c, d) ==
  LET qa == a \div b
      qc == c \div d
      ra == a % b
      rc == c % d
  IN IF qa # qc THEN qa < qc
     ELSE IF ra = 0 THEN TRUE
     ELSE IF rc = 0 THEN FALSE
     ELSE C11_FracLeq(d, rc, b, ra)

C11_Leq(x, y) == C11_FracLeq(x.n, x.d, y.n, y.d)

C11_ProgressMonotoneTo100 ==
  /\ \A i \in 1..Len(progress) :
       /\ IsFinite(progress[i])
       /\ progress[i].n >= 0
       /\ C11_Leq(progress[i], Int2Rat(100))
  /\ \A i \in 1..(Len(progress) - 1) : C11_Leq(progress[i], progress[i + 1])
  /\ pc = "done" => progress[Len(progress)] = Int2Rat(100)

\* the default resolution 32: three reports while sampling, 32 while triangulating
C11_Witness ==
  /\ pc = "done"
  /\ IsAbsent(options.resolution)
  /\ Len(progress) = 5 + 3 + 32

\* ------------------------------------------------------------------------
\* C12 (refuted by the model).  Statement: the maximum resolution M named in
\* the memory-limit error fits the budget, (M+1)^3 * 4 bytes <= maxMemoryMB MB,
\* and resolution M + 1 does not.  When maxMemoryMB * 1024 * 1024 / 4 is a cube
\* c^3, c >= 4, the error names c - 2 although c - 1 fits as well.
\* ------------------------------------------------------------------------
C12_NamedMaximumIsLargest ==
  pc = "thrown" =>
    /\ ~RGt(EstimatedMemory(maxResolution[1]), maxMemoryMB)
    /\ RGt(EstimatedMemory(maxResolution[1] + 1), maxMemoryMB)

\* ------------------------------------------------------------------------
\* C13 and C14: Mesher.toSTL
\* ------------------------------------------------------------------------
\* the 12 float bytes of the three components a, b, c, each over sqrt(over)
C13_Floats(a, b, c, over) ==
  <<FloatByte(a, over, 0), FloatByte(a, over, 1), FloatByte(a, over, 2), FloatByte(a, over, 3),
    FloatByte(b, over, 0), FloatByte(b, over, 1), FloatByte(b, over, 2), FloatByte(b, over, 3),
    FloatByte(c, over, 0), FloatByte(c, over, 1), FloatByte(c, over, 2), FloatByte(c, over, 3)>>

\* vertex number n (0-based) of a flattened vertex array
C13_Vertex(verts, n) == [x |-> verts[3 * n + 1], y |-> verts[3 * n + 2], z |-> verts[3 * n + 3]]

\* the unsigned value of four bytes read least significant first
C13_LittleEndian(bs) ==
  bs[1].val.n + 256 * bs[2].val.n + 65536 * bs[3].val.n + 16777216 * bs[4].val.n

\* C13: the buffer toSTL returns has 84 + 50 * triangleCount bytes and no write
\* fell outside it; bytes 0..79 are the header text (the fixed prefix and the
\* name, one byte per character, cut at 80, the rest 0); bytes 80..83 read as a
\* little-endian unsigned integer give triangleCount; record t, at byte
\* 84 + 50 t, holds 12 float bytes of a normal, the 36 float bytes of the
\* vertices indices[3t], indices[3t+1], indices[3t+2] in this order, and two 0
\* bytes; with indices.length = 3 * triangleCount the last record ends at the
\* end of the buffer.
C13_STLLayout ==
  ~IsAbsent(stl) =>
    LET b == stl[1].buffer
        m == mesh[1]
        T == m.triangleCount.n
        header == HeaderPrefix \o stl[1].name
        one == Int2Rat(1)
    IN /\ ~b.rangeError
       /\ Len(b.bytes) = 84 + 50 * T
       /\ \A i \in 1..80 :
            /\ b.bytes[i].kind = "u8"
            /\ b.bytes[i].val = IF i <= Len(header) THEN Int2Rat(header[i] % 256) ELSE Int2Rat(0)
       /\ \A i \in 81..84 : b.bytes[i].kind = "u8" /\ b.bytes[i].val.n \in 0..255
       /\ C13_LittleEndian(SubSeq(b.bytes, 81, 84)) = T
       /\ \A t \in 0..(T - 1) :
            LET at == 84 + 50 * t
                rec == SubSeq(b.bytes, at + 1, at + 50)
            IN /\ \A k \in 1..12 : rec[k].kind = "f32" /\ rec[k].k = (k - 1) % 4
               /\ \A v \in 0..2 :
                    LET p == C13_Vertex(m.vertices, m.indices[3 * t + v + 1])
                    IN SubSeq(rec, 13 + 12 * v, 24 + 12 * v) = C13_Floats(p.x, p.y, p.z, one)
               /\ rec[49] = Byte(0) /\ rec[50] = Byte(0)
       /\ Len(m.indices) = 3 * T => 84 + 50 * (Len(m.indices) \div 3) = Len(b.bytes)

\* an export of at least two triangles under the 60-character name, whose
\* header text of 83 characters is cut
C13_Witness ==
  /\ ~IsAbsent(stl)
  /\ Len(stl[1].name) = 60
  /\ mesh[1].triangleCount.n >= 2
  /\ Len(mesh[1].indices) = 3 * mesh[1].triangleCount.n

\* the mesh with every component of its normals replaced by v
C14_WithNormals(m, v) == [m EXCEPT !.normals = [i \in 1..Len(m.normals) |-> v]]

\* C14: the exported bytes are those of the same mesh with any other normals
\* array (all 0, all 1), and the 12 normal bytes of record t are the floats of
\* (v1 - v0) x (v2 - v0) divided by its length, the vertices being the
\* triangle's own (the cross product itself, 0, when its length is 0).
C14_STLNormalsAreGeometric ==
  ~IsAbsent(stl) =>
    LET b == stl[1].buffer
        m == mesh[1]
    IN /\ \A v \in {Int2Rat(0), Int2Rat(1)} : toSTL(C14_WithNormals(m, v), stl[1].name) = b
       /\ \A t \in 0..(m.triangleCount.n - 1) :
            LET v0 == C13_Vertex(m.vertices, m.indices[3 * t + 1])
                v1 == C13_Vertex(m.vertices, m.indices[3 * t + 2])
                v2 == C13_Vertex(m.vertices, m.indices[3 * t + 3])
                n == VCross(VSub(v1, v0), VSub(v2, v0))
                lenSq == VDot(n, n)
                over == IF lenSq = Int2Rat(0) THEN Int2Rat(1) ELSE lenSq
            IN SubSeq(b.bytes, 85 + 50 * t, 96 + 50 * t) = C13_Floats(n.x, n.y, n.z, over)

\* an export with a triangle of non-zero area whose stored normals are not all
\* equal, so that replacing them changes the mesh
C14_Witness ==
  /\ ~IsAbsent(stl)
  /\ mesh[1].triangleCount.n >= 1
  /\ \E i, j \in 1..Len(mesh[1].normals) : mesh[1].normals[i] # mesh[1].normals[j]
  /\ \E t \in 0..(mesh[1].triangleCount.n - 1) :
       stl[1].buffer.bytes[85 + 50 * t].over # Int2Rat(1)

\* ------------------------------------------------------------------------
\* C15: Mesher.toOBJ
\* ------------------------------------------------------------------------
\* the positions where a line of the text starts
C15_LineStarts(text) == {i \in 1..Len(text) : i = 1 \/ text[i - 1].t = "nl"}

\* the lines of the text whose first word is the keyword
C15_Lines(text, keyword) ==
  {i \in C15_LineStarts(text) : text[i].t = "word" /\ text[i].v = keyword}

\* the text has vertexCount v lines, as many vn lines, triangleCount f lines,
\* and every index on an f line is in 1..vertexCount
C15_Counts(m, text) ==
  /\ Int2Rat(Cardinality(C15_Lines(text, "v"))) = m.vertexCount
  /\ Int2Rat(Cardinality(C15_Lines(text, "vn"))) = m.vertexCount
  /\ Int2Rat(Cardinality(C15_Lines(text, "f"))) = m.triangleCount
  /\ \A i \in C15_Lines(text, "f") :
       \A k \in 1..3 :
         /\ text[i + k].t = "ref"
         /\ \A n \in 1..2 : ~RGt(Int2Rat(1), Int2Rat(text[i + k].v[n]))
                            /\ ~RGt(Int2Rat(text[i + k].v[n]), m.vertexCount)

\* C15 (refuted by the model).  Statement: the text of toOBJ on a mesh of
\* marchingCubes has vertexCount v lines, as many vn lines, triangleCount f
\* lines and face indices in [1, vertexCount].  A name with a line break puts
\* the rest of the name on a line of its own, here a further v line.
C15_OBJCountsAnyName == ~IsAbsent(obj) => C15_Counts(mesh[1], obj[1].text)

\* The counts and index ranges of C15 do hold for every export whose name has
\* no line break, the default name 'model' included.
C15_OBJCountsOneLineName ==
  (~IsAbsent(obj) /\ \A i \in 1..Len(obj[1].name) : obj[1].name[i].t # "nl")
    => C15_Counts(mesh[1], obj[1].text)

\* ------------------------------------------------------------------------
\* C16 (refuted by the model).  Statement: an operation that returns, whatever
\* the number of its inputs, returns a Field object that is none of its inputs,
\* and every input has the _evaluate, _bounds and _metadata it had before.  A
\* union, intersection, smoothUnion or smoothIntersection of one field returns
\* that field.
\* ------------------------------------------------------------------------
C16_NewFieldInputsUntouched ==
  (~IsAbsent(applied) /\ ~applied[1].threw) =>
    /\ \A i \in 1..Len(applied[1].inputs) : applied[1].returned # applied[1].inputs[i]
    /\ \A i \in 1..Len(applied[1].inputs) :
         objects[applied[1].inputs[i]] = applied[1].before[applied[1].inputs[i]]

\* The second half of C16 holds: every object that existed before an operation
\* is unchanged after it.
C16_ExistingObjectsUntouched ==
  ~IsAbsent(applied) => SubSeq(objects, 1, Len(applied[1].before)) = applied[1].before

\* ------------------------------------------------------------------------
\* C17: sampling options
\* ------------------------------------------------------------------------
\* the options of the probe took effect on each of its results: no normal when
\* computeNormal is false, the given normalEpsilon in every normal, the
\* material of the field in every evaluated result when includeMaterial is set
C17_Honoured ==
  LET o == probe[1].options
  IN \A i \in 1..Len(probe[1].results) :
       LET r == probe[1].results[i]
       IN /\ o.computeNormal = Some(FALSE) => IsAbsent(r.normal)
          /\ (~IsAbsent(o.normalEpsilon) /\ ~IsAbsent(r.normal))
               => r.normal[1].epsilon = o.normalEpsilon[1]
          /\ (o.includeMaterial = Some(TRUE) /\ ~r.outsideBounds)
               => r.material = probe[1].material

\* C17 (refuted by the model).  Statement: options given as the second argument
\* of sample(point, options) and of sampleBatch(points, options) take effect:
\* with computeNormal false no result has a normal, also when |distance| < 0.1,
\* and normalEpsilon and includeMaterial are honoured.  The second argument is
\* bound to the parameter y, and the options of the call stay {}.
C17_SecondArgumentOptionsHonoured ==
  (~IsAbsent(probe)
     /\ probe[1].op \in {"sample(p, options)", "sampleBatch(points, options)"}) => C17_Honoured

\* Options given as the fourth argument do take effect.
C17_FourthArgumentOptionsHonoured ==
  (~IsAbsent(probe) /\ probe[1].op = "sample(p, undefined, undefined, options)") => C17_Honoured

\* ------------------------------------------------------------------------
\* C18 (refuted by the model).  Statement: the bounds of every Field a
\* constructor or an operation returned have min <= max on each axis.  The
\* intersection and the smooth intersection of two fields whose boxes do not
\* overlap, and a linear extrusion by a negative distance, have min > max.
\* ------------------------------------------------------------------------
C18_BoundsMinLeqMax ==
  \A i \in 1..Len(objects) :
    LET b == Field_bounds(objects[i])
    IN b.min.x <= b.max.x /\ b.min.y <= b.max.y /\ b.min.z <= b.max.z

\* The objects whose closure holds no intersection, smooth intersection or
\* extrusion, directly or through its inputs (which are older objects)
RECURSIVE C18_Plain(_)
C18_Plain(i) ==
  /\ objects[i]._evaluate.fn \notin {"intersection", "smoothIntersection", "extrude-linear"}
  /\ \A k \in 1..Len(objects[i]._evaluate.over) : C18_Plain(objects[i]._evaluate.over[k])

\* Fields built without an intersection or an extrusion have min <= max, an
\* inward offset (negative distance) included, since offset expands by |distance|.
C18_PlainBoundsMinLeqMax ==
  \A i \in 1..Len(objects) :
    C18_Plain(i) =>
      LET b == Field_bounds(objects[i])
      IN b.min.x <= b.max.x /\ b.min.y <= b.max.y /\ b.min.z <= b.max.z

\* ------------------------------------------------------------------------
\* C19 (refuted by the model).  Statement: a read of `current` never returns a
\* Field built from values that were current before the last change of a
\* parameter, also when a rebuild attempt fails: the Field read was built from
\* the values the parameters have at the read.  When the build function throws
\* for the new values, the read returns the Field cached before the change.
\* ------------------------------------------------------------------------
C19_CurrentIsBuiltFromLatestValues ==
  (reading.op = "current" /\ ~IsAbsent(reading.field))
    => reading.field[1].builtFrom = ParameterValues(params)

\* When the build function does not throw for the values at the read, the read
\* returns the Field built from them, and it calls the build function only if a
\* parameter was notified since the last successful build.
C19_CurrentIsFreshWhenBuildSucceeds ==
  (reading.op = "current" /\ ~BuildFn(ParameterValues(params)).threw)
    => /\ reading.field = BuildFn(ParameterValues(params)).field
       /\ ~needsRebuild
       /\ cachedField = reading.field

\* ------------------------------------------------------------------------
\* C20 (refuted by the model).  Statement: reading the value of a
\* DerivedParameter yields its compute function applied to the current values
\* of its sources, a source that is a DerivedParameter included.  The read
\* yields undefined.
\* ------------------------------------------------------------------------
\* the value the statement gives a parameter: its own for a Parameter, the
\* compute function applied to the values of the sources for a DerivedParameter
RECURSIVE C20_Expected(_)
C20_Expected(name) ==
  IF params[name].kind = "Parameter" THEN params[name]._value
  ELSE Compute(params[name].computeFn,
               [i \in 1..Len(params[name].sourceDependencies) |->
                  C20_Expected(params[name].sourceDependencies[i])]).value

C20_DerivedReadIsComputed ==
  (reading.op = "value" /\ params[reading.of].kind = "DerivedParameter")
    => reading.value = C20_Expected(reading.of)

\* What is stored does follow the assignments for a DerivedParameter whose
\* source is a Parameter and whose compute function does not throw:
\* headHeight._value is twice diameter.value in every state.
C20_StoredValueFollowsBaseSource ==
  params["headHeight"]._value = JSNum(2 * params["diameter"]._value.n)

\* ------------------------------------------------------------------------
\* C21: Boolean.union, intersection, difference, xor evaluate as stated
\* ------------------------------------------------------------------------
\* v is the least (greatest) of the values vs
C21_IsMin(v, vs) == (\A i \in 1..Len(vs) : NumLeq(v, vs[i])) /\ (\E i \in 1..Len(vs) : NumEq(v, vs[i]))

C21_IsMax(v, vs) == (\A i \in 1..Len(vs) : NumLeq(vs[i], v)) /\ (\E i \in 1..Len(vs) : NumEq(v, vs[i]))

\* the distances of the children of solid at the probed point
C21_Children ==
  [i \in 1..Len(solid[1].kids) |-> Field_evaluate(solid[1].kids[i], probe[1].point)]

C22_SmoothWithinQuarterRadius ==
  (~IsAbsent(blend) /\ Len(blend[1].values) = 2) =>
    LET a == blend[1].values[1]
        b == blend[1].values[2]
        k == blend[1].k
        r == blend[1].result
        far == RLeq(k, RAbs(RSub(a, b)))
        lo == IF RLeq(a, b) THEN a ELSE b
        hi == IF RLeq(a, b) THEN b ELSE a
        quarter == RDiv(k, Int2Rat(4))
    IN /\ blend[1].op = "_smoothMin" =>
            IF far THEN r = lo ELSE RLeq(RSub(lo, quarter), r) /\ RLeq(r, lo)
       /\ blend[1].op = "_smoothMax" =>
            IF far THEN r = hi ELSE RLeq(hi, r) /\ RLeq(r, RAdd(hi, quarter))

\* a smooth minimum of two values closer than k, strictly below their minimum
C22_Witness ==
  /\ ~IsAbsent(blend) /\ blend[1].op = "_smoothMin" /\ Len(blend[1].values) = 2
  /\ RGt(blend[1].k, RAbs(RSub(blend[1].values[1], blend[1].values[2])))
  /\ RGt(RMin2(blend[1].values[1], blend[1].values[2]), blend[1].result)

\* ------------------------------------------------------------------------
\* C23 (as stated): the box with center (0,0,0) and size (10,10,10) sampled at
\* (10,0,0) returns distance 0, and sampled at (0,0,0) returns distance -5.
\* ------------------------------------------------------------------------
C23_Box == Primitives_box(Origin, Vec(10, 10, 10)).field[1]

C23_Sampled(p) ==
  /\ ~IsAbsent(probe)
  /\ probe[1].op = "sample(p)"
  /\ solid = Some(C23_Box)
  /\ probe[1].points = <<p>>

C23_Distance == probe[1].results[1].distance

C23_FaceAtTenCentreMinusFive ==
  /\ C23_Sampled(Vec(10, 0, 0)) => NumEq(C23_Distance, NumInt(0))
  /\ C23_Sampled(Origin) => NumEq(C23_Distance, NumInt(-5))

\* C23 (amended): the box with center (0,0,0) and size (10,10,10) has its faces
\* at distance 5 from the center: sampled at (5,0,0) it returns distance 0,
\* sampled at (0,0,0) it returns -5, and sampled at (10,0,0), which is outside
\* the stored bounds, it returns distance 5 with outsideBounds set.
C23_FaceAtFiveCentreMinusFive ==
  /\ C23_Sampled(Vec(5, 0, 0)) =>
        NumEq(C23_Distance, NumInt(0)) /\ ~probe[1].results[1].outsideBounds
  /\ C23_Sampled(Origin) =>
        NumEq(C23_Distance, NumInt(-5)) /\ ~probe[1].results[1].outsideBounds
  /\ C23_Sampled(Vec(10, 0, 0)) =>
        NumEq(C23_Distance, NumInt(5)) /\ probe[1].results[1].outsideBounds

C23_Witness == C23_Sampled(Vec(5, 0, 0)) /\ NumEq(C23_Distance, NumInt(0))

\* ------------------------------------------------------------------------
\* C24 (as stated): a closed sketch of one circle of radius r, extruded along
\* +z by d, is a solid cylinder: the field is negative at the points inside
\* the cylinder and positive at the points outside it.
\* ------------------------------------------------------------------------
C24_OfCircle ==
  /\ ~IsAbsent(extrusion)
  /\ Len(extrusion[1].sketch.elements) = 1
  /\ extrusion[1].sketch.elements[1].type = "circle"
  /\ extrusion[1].sketch.closed

C24_Radius == extrusion[1].sketch.elements[1].radius

C24_RadiusSq == extrusion[1].point.x * extrusion[1].point.x
                + extrusion[1].point.y * extrusion[1].point.y

C24_InsideCylinder ==
  /\ C24_RadiusSq < C24_Radius * C24_Radius
  /\ 0 < extrusion[1].point.z
  /\ extrusion[1].point.z < extrusion[1].distance

C24_OutsideCylinder ==
  \/ C24_RadiusSq > C24_Radius * C24_Radius
  \/ extrusion[1].point.z < 0
  \/ extrusion[1].point.z > extrusion[1].distance

C24_CircleExtrusionIsSolidCylinder ==
  C24_OfCircle =>
    /\ C24_InsideCylinder => NumLt(extrusion[1].result.distance, NumInt(0))
    /\ C24_OutsideCylinder => NumLt(NumInt(0), extrusion[1].result.distance)

\* C24 (what the code does): the _evaluate of an extruded circle is negative
\* nowhere; inside the cylinder it is the distance to the side wall.
C24_CircleExtrusionNeverNegative ==
  (C24_OfCircle /\ ~extrusion[1].result.outsideBounds) =>
    /\ NumLeq(NumInt(0), extrusion[1].result.distance)
    /\ C24_InsideCylinder =>
         LET k == IntRoot(C24_RadiusSq)
         IN NumEq(extrusion[1].result.distance, NumInt(C24_Radius - k))

\* C24 (the extruded rectangle): a sketch of line elements is solid: negative
\* strictly inside the prism, positive strictly outside it.
C24_RectangleExtrusionIsSolid ==
  (~IsAbsent(extrusion) /\ extrusion[1].sketch.elements[1].type = "line"
   /\ extrusion[1].op = "_evaluate") =>
    LET p == extrusion[1].point
        within == Abs(p.x) < 1 /\ Abs(p.y) < 1 /\ 0 < p.z /\ p.z < extrusion[1].distance
        without == Abs(p.x) > 1 \/ Abs(p.y) > 1 \/ p.z < 0 \/ p.z > extrusion[1].distance
    IN /\ within => NumLt(extrusion[1].result.distance, NumInt(0))
       /\ without => NumLt(NumInt(0), extrusion[1].result.distance)

C24_Witness == C24_OfCircle /\ C24_InsideCylinder

\* ------------------------------------------------------------------------
\* C25: a marchingCubes call moves through sampling, triangulating, finalizing
\* and done in this order and never back.  Each of the (resolution+1)^3 grid
\* cells is written exactly once, the cell of (i,j,k) at the index
\* i + (res+1)*(j + (res+1)*k), which is within the array and distinct for
\* distinct (i,j,k); all cells are written before the first cube is
\* triangulated, and no cell is written during triangulation or after it.
\* ------------------------------------------------------------------------
C25_Index(i, j, k) == i + (resolution + 1) * (j + (resolution + 1) * k)

C25_Running == pc \in {"sampling", "triangulating", "finalizing", "done"}

C25_PhaseStep ==
  \/ pc' = pc
  \/ pc = "idle" /\ pc' \in {"sampling", "thrown"}
  \/ pc = "sampling" /\ pc' = "triangulating"
  \/ pc = "triangulating" /\ pc' = "finalizing"
  \/ pc = "finalizing" /\ pc' = "done"

\* the step writes no cell, or allocates the array, or writes one cell that was
\* not written before, the cell of one (i,j,k), while sampling
C25_GridStep ==
  \/ grid' = grid /\ sampledAt' = sampledAt
  \/ /\ pc = "idle"
     /\ DOMAIN grid' = 0..((resolution' + 1) ^ 3 - 1)
     /\ DOMAIN sampledAt' = DOMAIN grid'
     /\ \A idx \in DOMAIN grid' : IsAbsent(sampledAt'[idx])
  \/ /\ pc = "sampling" /\ pc' = "sampling"
     /\ DOMAIN grid' = DOMAIN grid
     /\ \E i, j, k \in 0..resolution :
          /\ C25_Index(i, j, k) \in DOMAIN grid
          /\ IsAbsent(sampledAt[C25_Index(i, j, k)])
          /\ sampledAt' = [sampledAt EXCEPT ![C25_Index(i, j, k)] = Some(GridPoint(i, j, k))]
          /\ \A idx \in DOMAIN grid \ {C25_Index(i, j, k)} : grid'[idx] = grid[idx]

C25_GridState ==
  /\ C25_Running =>
       /\ DOMAIN grid = 0..((resolution + 1) ^ 3 - 1)
       /\ \A a, b \in (0..resolution) \X (0..resolution) \X (0..resolution) :
            /\ GetIndex(a[1], a[2], a[3]) = C25_Index(a[1], a[2], a[3])
            /\ GetIndex(a[1], a[2], a[3]) \in DOMAIN grid
            /\ a # b => GetIndex(a[1], a[2], a[3]) # GetIndex(b[1], b[2], b[3])
  /\ pc = "sampling" =>
       /\ Cardinality({idx \in DOMAIN sampledAt : ~IsAbsent(sampledAt[idx])}) = sampleCount
       /\ vertices = <<>> /\ indices = <<>>
  /\ pc \in {"triangulating", "finalizing", "done"} =>
       \A idx \in DOMAIN sampledAt : ~IsAbsent(sampledAt[idx])

C25_PhasesInOrderGridWrittenOnce ==
  /\ []C25_GridState
  /\ [][C25_PhaseStep /\ C25_GridStep]_vars

C25_Witness ==
  /\ pc = "done"
  /\ resolution = MaxRes
  /\ Len(indices) > 0
  /\ \A idx \in 0..((resolution + 1) ^ 3 - 1) : ~IsAbsent(sampledAt[idx])

\* ------------------------------------------------------------------------
\* C26: the corner-sign index of a cube has bit i set exactly when the sample
\* of corner i is <= 0.  A cube with index 0 or 255 emits no triangle, a cube
\* with another index c emits length(triTable[c]) / 3 triangles.  edgeTable[c]
\* flags exactly the edges whose two corners, under edgeConnections, differ in
\* sign, and every edge named in triTable[c] is flagged in edgeTable[c].
\* ------------------------------------------------------------------------
C26_Inside(c) == RLeq(cubeValues[c], Int2Rat(0))

C26_Index == CubeIndex(cubeValues)

C26_TableConsistentTrianglesEmitted ==
  ~IsAbsent(cubeOut) =>
    LET triangles == triTable[C26_Index + 1]
        edgeFlags == edgeTable[C26_Index + 1]
    IN /\ C26_Index \in 0..255
       /\ \A c \in 0..7 : (Bit(C26_Index, c) = 1) <=> C26_Inside(c)
       /\ Len(triangles) % 3 = 0
       /\ Len(cubeOut[1].indices) =
            IF C26_Index \in {0, 255} THEN 0 ELSE Len(triangles)
       /\ Len(cubeOut[1].vertices) = 3 * Len(cubeOut[1].indices)
       /\ edgeFlags \in 0..4095
       /\ \A e \in 0..11 :
            (Bit(edgeFlags, e) = 1) <=>
              (C26_Inside(edgeConnections[e + 1][1]) # C26_Inside(edgeConnections[e + 1][2]))
       /\ \A n \in 1..Len(triangles) :
            triangles[n] \in 0..11 /\ Bit(edgeFlags, triangles[n]) = 1

\* a cube with a corner sample of exactly zero that emits five triangles
C26_Witness ==
  /\ ~IsAbsent(cubeOut)
  /\ \E c \in 0..7 : cubeValues[c].n = 0
  /\ \E c \in 0..7 : cubeValues[c].n < 0
  /\ Len(cubeOut[1].indices) = 15

\* ------------------------------------------------------------------------
\* C27 (as stated): the value of a Parameter lies in [min, max] in every
\* reachable state, after construction with any initial value and after any
\* assignments.
\* ------------------------------------------------------------------------
C27_Within(p) == p._value.t = "number" /\ p.min <= p._value.n /\ p._value.n <= p.max

C27_ValueAlwaysWithinRange ==
  \A name \in DOMAIN params :
     params[name].kind = "Parameter" => C27_Within(params[name])

\* C27 (what the code does): the value of a Parameter with min <= max lies in
\* [min, max] after an assignment to it; the constructor stores the initial
\* value as given.
C27_AssignedValueWithinRange ==
  /\ (reading.op = "set" /\ params[reading.of].kind = "Parameter") =>
       C27_Within(params[reading.of])
  /\ (reading.op = "param") => params[reading.of]._value = reading.value

\* ------------------------------------------------------------------------
\* C28: Modify.fillet(f, r) evaluates to (f(p) + r) - r, which is f(p) in
\* exact arithmetic, so its zero set is that of f; its bounds are those of f
\* grown by 2r on every side.
\* ------------------------------------------------------------------------
C28_Filleted == call.op = "Modify.fillet" /\ ~call.threw /\ ~IsAbsent(solid)

\* the field the fillet was applied to
C28_Input == solid[1].kids[1].kids[1]

C28_IsZero(d) == NumEq(d, NumInt(0))

C29_FeatureIdsDistinct ==
  \A i, j \in 1..Len(tree.features) :
     i # j => tree.features[i].id # tree.features[j].id

\* C29 (what the code does): the id of an added feature is the number of
\* features before the call; ids are distinct as long as nothing was deleted.
C29_IdIsCountBeforeAdd ==
  tree.last.op = "addFeature" =>
    tree.features[Len(tree.features)].id = Len(tree.features) - 1

\* ------------------------------------------------------------------------
\* C30: after every mutation of the tree, getModel() is the result of the last
\* feature in list order that is not suppressed and whose operation did not
\* throw, or null when there is none.  A feature whose operation throws gets
\* the result null and the error message recorded, and the features after it
\* are rebuilt all the same.
\* ------------------------------------------------------------------------
C30_Threw(i) == ~tree.features[i].suppressed /\ ~IsAbsent(tree.features[i].error)

C30_Good(i) == ~tree.features[i].suppressed /\ IsAbsent(tree.features[i].error)

C30_LastGood ==
  CHOOSE i \in 1..Len(tree.features) :
     C30_Good(i) /\ \A j \in (i + 1)..Len(tree.features) : ~C30_Good(j)

\* the inputs of feature i are features before it in the list, or missing
C30_InputsBefore(i) ==
  \A n \in 1..Len(tree.features[i].inputs) :
     FindFeature(tree.features, tree.features[i].inputs[n]) < i

C30_GetModelIsLastGoodResult ==
  /\ FeatureTree_getModel(tree) =
       IF \E i \in 1..Len(tree.features) : C30_Good(i)
       THEN tree.features[C30_LastGood].result
       ELSE Absent
  /\ \A i \in 1..Len(tree.features) :
       /\ C30_Threw(i) => IsAbsent(tree.features[i].result)
       /\ tree.features[i].suppressed => IsAbsent(tree.features[i].result)
       /\ C30_Good(i) => ~IsAbsent(tree.features[i].result)
       /\ (~tree.features[i].suppressed /\ C30_InputsBefore(i)) =>
            LET out == Operate(tree.features[i].operation,
                               FeatureArgs(tree.features, tree.features[i].inputs),
                               tree.features[i].parameters)
            IN IF out.threw
               THEN tree.features[i].error = Some(out.message)
               ELSE /\ IsAbsent(tree.features[i].error)
                    /\ tree.features[i].result = Some(out.value)

\* an edit made the first feature throw after it had succeeded, and the second
\* feature was rebuilt and gives the model
C30_Witness ==
  /\ tree.last.op = "editFeature"
  /\ Len(tree.features) = 2
  /\ C30_Threw(1)
  /\ C30_Good(2)
  /\ FeatureTree_getModel(tree) = tree.features[2].result
  /\ ~IsAbsent(FeatureTree_getModel(tree))

====
